---------------------------- MODULE Spec2Model ----------------------------
(***************************************************************************)
(* clutchctl: configuration of programmable USB foot pedals.               *)
(*                                                                         *)
(* The module models the two drivers of clutchctl-core (IkkegolDevice and  *)
(* PCsensorDevice): their session state (cached configurations, trigger    *)
(* modes, modification flags), the bytes they exchange with the device,    *)
(* and the codec and keymap they decode those bytes with.                  *)
(***************************************************************************)
EXTENDS Integers, Sequences, FiniteSets, TLC

(***************************************************************************)
(* Option values (Rust's Option<T>).                                       *)
(***************************************************************************)
None == [some |-> FALSE]
Some(x) == [some |-> TRUE, v |-> x]

\* Option::unwrap_or and Option::or
unwrap_or(opt, default) == IF opt.some THEN opt.v ELSE default
or_else(opt, other) == IF opt.some THEN opt ELSE other

\* `let x = value;` followed by the code K that uses x
Bind(value, K(_)) == K(value)

Min(a, b) == IF a < b THEN a ELSE b

(***************************************************************************)
(* Characters are one-character strings, strings are sequences of them.    *)
(***************************************************************************)
UpperChars ==
    <<"A", "B", "C", "D", "E", "F", "G", "H", "I", "J", "K", "L", "M",
      "N", "O", "P", "Q", "R", "S", "T", "U", "V", "W", "X", "Y", "Z">>

LowerChars ==
    <<"a", "b", "c", "d", "e", "f", "g", "h", "i", "j", "k", "l", "m",
      "n", "o", "p", "q", "r", "s", "t", "u", "v", "w", "x", "y", "z">>

HexDigits ==
    <<"0", "1", "2", "3", "4", "5", "6", "7",
      "8", "9", "a", "b", "c", "d", "e", "f">>

is_alphabetic(ch) ==
    \E k \in 1..26 : ch = UpperChars[k] \/ ch = LowerChars[k]

\* char::to_lowercase on the characters the keymap uses
to_lowercase_char(ch) ==
    IF \E k \in 1..26 : ch = UpperChars[k]
    THEN LowerChars[CHOOSE k \in 1..26 : ch = UpperChars[k]]
    ELSE ch

to_lowercase(s) == [k \in 1..Len(s) |-> to_lowercase_char(s[k])]

\* format!("0x{:02x}", code)
format_hex(code) == <<"0", "x", HexDigits[(code \div 16) + 1], HexDigits[(code % 16) + 1]>>

(***************************************************************************)
(* The keymap (protocol/hid_keymap.rs).                                    *)
(***************************************************************************)
\* The character U+0060, which cannot be written inside a TLA+ string.
Backquote == "backquote"

KEYMAP_TABLE ==
    <<
       <<<<"<", "0", "0", ">">>, 0>>,
       <<<<"<", "0", "1", ">">>, 1>>,
       <<<<"<", "0", "2", ">">>, 2>>,
       <<<<"<", "0", "3", ">">>, 3>>,
       <<<<"a">>, 4>>,
       <<<<"b">>, 5>>,
       <<<<"c">>, 6>>,
       <<<<"d">>, 7>>,
       <<<<"e">>, 8>>,
       <<<<"f">>, 9>>,
       <<<<"g">>, 10>>,
       <<<<"h">>, 11>>,
       <<<<"i">>, 12>>,
       <<<<"j">>, 13>>,
       <<<<"k">>, 14>>,
       <<<<"l">>, 15>>,
       <<<<"m">>, 16>>,
       <<<<"n">>, 17>>,
       <<<<"o">>, 18>>,
       <<<<"p">>, 19>>,
       <<<<"q">>, 20>>,
       <<<<"r">>, 21>>,
       <<<<"s">>, 22>>,
       <<<<"t">>, 23>>,
       <<<<"u">>, 24>>,
       <<<<"v">>, 25>>,
       <<<<"w">>, 26>>,
       <<<<"x">>, 27>>,
       <<<<"y">>, 28>>,
       <<<<"z">>, 29>>,
       <<<<"1">>, 30>>,
       <<<<"2">>, 31>>,
       <<<<"3">>, 32>>,
       <<<<"4">>, 33>>,
       <<<<"5">>, 34>>,
       <<<<"6">>, 35>>,
       <<<<"7">>, 36>>,
       <<<<"8">>, 37>>,
       <<<<"9">>, 38>>,
       <<<<"0">>, 39>>,
       <<<<"e", "n", "t", "e", "r">>, 40>>,
       <<<<"r", "e", "t", "u", "r", "n">>, 40>>,
       <<<<"e", "s", "c">>, 41>>,
       <<<<"e", "s", "c", "a", "p", "e">>, 41>>,
       <<<<"b", "a", "c", "k", "s", "p", "a", "c", "e">>, 42>>,
       <<<<"t", "a", "b">>, 43>>,
       <<<<" ">>, 44>>,
       <<<<"s", "p", "a", "c", "e">>, 44>>,
       <<<<"-">>, 45>>,
       <<<<"=">>, 46>>,
       <<<<"[">>, 47>>,
       <<<<"]">>, 48>>,
       <<<<"\\">>, 49>>,
       <<<<";">>, 51>>,
       <<<<"'">>, 52>>,
       <<<<Backquote>>, 53>>,
       <<<<",">>, 54>>,
       <<<<".">>, 55>>,
       <<<<"/">>, 56>>,
       <<<<"c", "a", "p", "s", "l", "o", "c", "k">>, 57>>,
       <<<<"f", "1">>, 58>>,
       <<<<"f", "2">>, 59>>,
       <<<<"f", "3">>, 60>>,
       <<<<"f", "4">>, 61>>,
       <<<<"f", "5">>, 62>>,
       <<<<"f", "6">>, 63>>,
       <<<<"f", "7">>, 64>>,
       <<<<"f", "8">>, 65>>,
       <<<<"f", "9">>, 66>>,
       <<<<"f", "1", "0">>, 67>>,
       <<<<"f", "1", "1">>, 68>>,
       <<<<"f", "1", "2">>, 69>>,
       <<<<"p", "r", "i", "n", "t", "s", "c", "r", "e", "e", "n">>, 70>>,
       <<<<"s", "c", "r", "o", "l", "l", "l", "o", "c", "k">>, 71>>,
       <<<<"p", "a", "u", "s", "e">>, 72>>,
       <<<<"i", "n", "s", "e", "r", "t">>, 73>>,
       <<<<"h", "o", "m", "e">>, 74>>,
       <<<<"p", "a", "g", "e", "u", "p">>, 75>>,
       <<<<"p", "r", "i", "o", "r">>, 75>>,
       <<<<"d", "e", "l", "e", "t", "e">>, 76>>,
       <<<<"e", "n", "d">>, 77>>,
       <<<<"p", "a", "g", "e", "d", "o", "w", "n">>, 78>>,
       <<<<"n", "e", "x", "t">>, 78>>,
       <<<<"r", "i", "g", "h", "t">>, 79>>,
       <<<<"l", "e", "f", "t">>, 80>>,
       <<<<"d", "o", "w", "n">>, 81>>,
       <<<<"u", "p">>, 82>>,
       <<<<"n", "u", "m", "l", "o", "c", "k">>, 83>>,
       <<<<"k", "p", "_", "d", "i", "v", "i", "d", "e">>, 84>>,
       <<<<"k", "p", "_", "m", "u", "l", "t", "i", "p", "l", "y">>, 85>>,
       <<<<"k", "p", "_", "s", "u", "b", "t", "r", "a", "c", "t">>, 86>>,
       <<<<"k", "p", "_", "a", "d", "d">>, 87>>,
       <<<<"k", "p", "_", "e", "n", "t", "e", "r">>, 88>>,
       <<<<"k", "p", "_", "e", "n", "d">>, 89>>,
       <<<<"k", "p", "_", "d", "o", "w", "n">>, 90>>,
       <<<<"k", "p", "_", "n", "e", "x", "t">>, 91>>,
       <<<<"k", "p", "_", "l", "e", "f", "t">>, 92>>,
       <<<<"k", "p", "_", "b", "e", "g", "i", "n">>, 93>>,
       <<<<"k", "p", "_", "r", "i", "g", "h", "t">>, 94>>,
       <<<<"k", "p", "_", "h", "o", "m", "e">>, 95>>,
       <<<<"k", "p", "_", "u", "p">>, 96>>,
       <<<<"k", "p", "_", "p", "r", "i", "o", "r">>, 97>>,
       <<<<"k", "p", "_", "i", "n", "s", "e", "r", "t">>, 98>>,
       <<<<"k", "p", "_", "d", "e", "l", "e", "t", "e">>, 99>>,
       <<<<"l", "e", "s", "s">>, 100>>,
       <<<<"m", "u", "l", "t", "i", "_", "k", "e", "y">>, 101>>,
       <<<<"c", "o", "m", "p", "o", "s", "e">>, 101>>,
       <<<<"f", "1", "3">>, 104>>,
       <<<<"f", "1", "4">>, 105>>,
       <<<<"f", "1", "5">>, 106>>,
       <<<<"f", "1", "6">>, 107>>,
       <<<<"f", "1", "7">>, 108>>,
       <<<<"f", "1", "8">>, 109>>,
       <<<<"f", "1", "9">>, 110>>,
       <<<<"f", "2", "0">>, 111>>,
       <<<<"f", "2", "1">>, 112>>,
       <<<<"f", "2", "2">>, 113>>,
       <<<<"f", "2", "3">>, 114>>,
       <<<<"f", "2", "4">>, 115>>,
       <<<<"x", "f", "8", "6", "a", "u", "d", "i", "o", "m", "u", "t", "e">>, 127>>,
       <<<<"x", "f", "8", "6", "a", "u", "d", "i", "o", "r", "a", "i", "s", "e", "v", "o", "l", "u", "m", "e">>, 128>>,
       <<<<"x", "f", "8", "6", "a", "u", "d", "i", "o", "l", "o", "w", "e", "r", "v", "o", "l", "u", "m", "e">>, 129>>,
       <<<<"A">>, 132>>,
       <<<<"B">>, 133>>,
       <<<<"C">>, 134>>,
       <<<<"D">>, 135>>,
       <<<<"E">>, 136>>,
       <<<<"F">>, 137>>,
       <<<<"G">>, 138>>,
       <<<<"H">>, 139>>,
       <<<<"I">>, 140>>,
       <<<<"J">>, 141>>,
       <<<<"K">>, 142>>,
       <<<<"L">>, 143>>,
       <<<<"M">>, 144>>,
       <<<<"N">>, 145>>,
       <<<<"O">>, 146>>,
       <<<<"P">>, 147>>,
       <<<<"Q">>, 148>>,
       <<<<"R">>, 149>>,
       <<<<"S">>, 150>>,
       <<<<"T">>, 151>>,
       <<<<"U">>, 152>>,
       <<<<"V">>, 153>>,
       <<<<"W">>, 154>>,
       <<<<"X">>, 155>>,
       <<<<"Y">>, 156>>,
       <<<<"Z">>, 157>>,
       <<<<"!">>, 158>>,
       <<<<"@">>, 159>>,
       <<<<"#">>, 160>>,
       <<<<"$">>, 161>>,
       <<<<"%">>, 162>>,
       <<<<"^">>, 163>>,
       <<<<"&">>, 164>>,
       <<<<"*">>, 165>>,
       <<<<"(">>, 166>>,
       <<<<")">>, 167>>,
       <<<<"_">>, 173>>,
       <<<<"+">>, 174>>,
       <<<<"{">>, 175>>,
       <<<<"}">>, 176>>,
       <<<<"|">>, 177>>,
       <<<<":">>, 179>>,
       <<<<"\"">>, 180>>,
       <<<<"~">>, 181>>,
       <<<<"<">>, 182>>,
       <<<<">">>, 183>>,
       <<<<"?">>, 184>>,
       <<<<"c", "o", "n", "t", "r", "o", "l", "_", "l">>, 224>>,
       <<<<"c", "t", "r", "l", "_", "l">>, 224>>,
       <<<<"l", "c", "t", "r", "l">>, 224>>,
       <<<<"s", "h", "i", "f", "t", "_", "l">>, 225>>,
       <<<<"l", "s", "h", "i", "f", "t">>, 225>>,
       <<<<"a", "l", "t", "_", "l">>, 226>>,
       <<<<"l", "a", "l", "t">>, 226>>,
       <<<<"s", "u", "p", "e", "r", "_", "l">>, 227>>,
       <<<<"l", "s", "u", "p", "e", "r">>, 227>>,
       <<<<"l", "w", "i", "n">>, 227>>,
       <<<<"l", "c", "m", "d">>, 227>>,
       <<<<"c", "o", "n", "t", "r", "o", "l", "_", "r">>, 228>>,
       <<<<"c", "t", "r", "l", "_", "r">>, 228>>,
       <<<<"r", "c", "t", "r", "l">>, 228>>,
       <<<<"s", "h", "i", "f", "t", "_", "r">>, 229>>,
       <<<<"r", "s", "h", "i", "f", "t">>, 229>>,
       <<<<"m", "e", "t", "a", "_", "r">>, 230>>,
       <<<<"a", "l", "t", "_", "r">>, 230>>,
       <<<<"r", "a", "l", "t">>, 230>>,
       <<<<"s", "u", "p", "e", "r", "_", "r">>, 231>>,
       <<<<"r", "s", "u", "p", "e", "r">>, 231>>,
       <<<<"r", "w", "i", "n">>, 231>>,
       <<<<"r", "c", "m", "d">>, 231>>,
       <<<<"x", "f", "8", "6", "a", "u", "d", "i", "o", "p", "a", "u", "s", "e">>, 232>>,
       <<<<"x", "f", "8", "6", "e", "j", "e", "c", "t">>, 233>>,
       <<<<"x", "f", "8", "6", "a", "u", "d", "i", "o", "p", "r", "e", "v">>, 234>>,
       <<<<"x", "f", "8", "6", "a", "u", "d", "i", "o", "n", "e", "x", "t">>, 235>>,
       <<<<"x", "f", "8", "6", "w", "w", "w">>, 240>>,
       <<<<"x", "f", "8", "6", "b", "a", "c", "k">>, 241>>,
       <<<<"x", "f", "8", "6", "f", "o", "r", "w", "a", "r", "d">>, 242>>,
       <<<<"x", "f", "8", "6", "s", "l", "e", "e", "p">>, 248>>,
       <<<<"x", "f", "8", "6", "s", "c", "r", "e", "e", "n", "s", "a", "v", "e", "r">>, 249>>,
       <<<<"x", "f", "8", "6", "r", "e", "l", "o", "a", "d">>, 250>>,
       <<<<"x", "f", "8", "6", "c", "a", "l", "c", "u", "l", "a", "t", "o", "r">>, 251>>
    >>

\* HashMap::get
get(map, key) == IF key \in DOMAIN map THEN Some(map[key]) ELSE None

\* HidKeymap::new, the keys one table entry inserts into name_to_code: its
\* exact name and, unless the name is a single letter, its lowercase form
InsertedNames(entry) ==
    IF Len(entry[1]) = 1 /\ is_alphabetic(entry[1][1])
    THEN {entry[1]}
    ELSE {entry[1], to_lowercase(entry[1])}

\* HidKeymap::new, the name_to_code map: entries are inserted in table
\* order, a later insert of the same key overwrites the earlier one
BuildNameToCode(table) ==
    LET inserted == [k \in 1..Len(table) |-> InsertedNames(table[k])]
    IN  [name \in UNION {inserted[k] : k \in 1..Len(table)} |->
            LET hits == {k \in 1..Len(table) : name \in inserted[k]}
            IN  table[CHOOSE k \in hits : \A j \in hits : j <= k][2]]

name_to_code_map == BuildNameToCode(KEYMAP_TABLE)

name_to_code(name) == get(name_to_code_map, name)

\* a code_to_name map that keeps the first name of every code
PreferName_first(existing, entries) == existing

\* HidKeymap::new, the code_to_name map: the first name of a code is kept
\* unless a later one is shorter and does not start with '<'.
RECURSIVE PreferName(_, _)
PreferName(existing, entries) ==
    IF entries = <<>> THEN existing
    ELSE PreferName(IF Len(Head(entries)[1]) < Len(existing)
                        /\ Head(entries)[1][1] # "<"
                    THEN Head(entries)[1] ELSE existing,
                    Tail(entries))

BuildCodeToName(table) ==
    [code \in 0..255 |->
        LET HasCode(entry) == entry[2] = code
            entries == SelectSeq(table, HasCode)
        IN  IF entries = <<>> THEN None
            ELSE Some(PreferName(entries[1][1], Tail(entries)))]

code_to_name == BuildCodeToName(KEYMAP_TABLE)

\* encode_key with the exact match only
encode_key_exact(name) == name_to_code(name)

encode_key(name) == or_else(name_to_code(name), name_to_code(to_lowercase(name)))

decode_key(code) == code_to_name[code]

encode_char(ch) == name_to_code(to_lowercase(<<ch>>))


(***************************************************************************)
(* Bytes.                                                                  *)
(***************************************************************************)
Byte == 0..255

Pow2(k) == 2 ^ k

\* bit k (0 = least significant) of the byte b
Bit(b, k) == (b \div Pow2(k)) % 2

\* b & mask
BitAnd(b, mask) ==
    LET F[k \in 0..8] ==
            IF k = 8 THEN 0
            ELSE Bit(b, k) * Bit(mask, k) * Pow2(k) + F[k + 1]
    IN  F[0]

\* `v as i8` and `v as u8`
as_i8(b) == IF b >= 128 THEN b - 256 ELSE b
as_u8(v) == v % 256

Zeros(n) == [k \in 1..n |-> 0]

(***************************************************************************)
(* Results and errors (error.rs).                                          *)
(***************************************************************************)
\* A PedalError: the variant, its message, and the two indices that only
\* InvalidPedalIndex carries.
PedalError(kind, msg, a, b) == [kind |-> kind, msg |-> msg, a |-> a, b |-> b]

InvalidPedalIndex(pedal_index, pedal_count) ==
    PedalError("InvalidPedalIndex", "", pedal_index, pedal_count)
Protocol(msg, value) == PedalError("Protocol", msg, value, 0)
Timeout == PedalError("Timeout", "", 0, 0)
\* the error of a failed hidapi call, after From<hidapi::HidError>
HidFailure(kind) == PedalError(kind, "", 0, 0)

NoError == PedalError("", "", 0, 0)

Ok(x) == [ok |-> TRUE, v |-> x, err |-> NoError]
Err(e) == [ok |-> FALSE, v |-> 0, err |-> e]

(***************************************************************************)
(* Configurations (configuration/*.rs).                                    *)
(***************************************************************************)
Unconfigured == [kind |-> "Unconfigured"]

\* KeyboardConfiguration::with_modifiers
KeyboardConfiguration_with_modifiers(mode, keys, modifiers) ==
    [kind |-> "Keyboard", mode |-> mode, keys |-> keys,
     modifiers |-> modifiers, trigger |-> "OnPress"]

\* MouseConfiguration::buttons and MouseConfiguration::axis
MouseConfiguration_buttons(buttons) ==
    [kind |-> "Mouse", mode |-> [m |-> "Buttons", buttons |-> buttons],
     trigger |-> "OnPress"]

MouseConfiguration_axis(x, y, wheel) ==
    [kind |-> "Mouse", mode |-> [m |-> "Axis", x |-> x, y |-> y, wheel |-> wheel],
     trigger |-> "OnPress"]

TextConfiguration_new(text) ==
    [kind |-> "Text", text |-> text, trigger |-> "OnPress"]

MediaConfiguration_new(button) ==
    [kind |-> "Media", button |-> button, trigger |-> "OnPress"]

GamepadConfiguration_new(button) ==
    [kind |-> "Gamepad", button |-> button, trigger |-> "OnPress"]

\* impl From<TriggerMode> for Trigger
TriggerFromMode(mode) == IF mode = "Press" THEN "OnPress" ELSE "OnRelease"

\* Configuration::set_trigger
set_trigger(config, trigger) ==
    IF config.kind = "Unconfigured" THEN config
    ELSE [config EXCEPT !.trigger = trigger]

\* Configuration::trigger
trigger_of(config) ==
    IF config.kind = "Unconfigured" THEN None ELSE Some(config.trigger)

\* an encoder that leaves a zero byte in the place of an unmappable character
RECURSIVE EncodeChars_placeholder(_, _)
EncodeChars_placeholder(text, encoded) ==
    IF text = <<>> \/ Len(encoded) >= 38 THEN encoded
    ELSE EncodeChars_placeholder(Tail(text),
            Append(encoded, unwrap_or(encode_char(Head(text)), 0)))

\* TextConfiguration::encode_for_protocol: the codes of the mappable
\* characters, at most 38 of them, zero-padded to 38 bytes
RECURSIVE EncodeChars(_, _)
EncodeChars(text, encoded) ==
    IF text = <<>> THEN encoded
    ELSE Bind(encode_char(Head(text)), LAMBDA code :
            LET next == IF code.some THEN Append(encoded, code.v)
                        ELSE IF Head(text) = " " THEN Append(encoded, 44)
                        ELSE encoded
            IN  IF next # encoded /\ Len(next) >= 38 THEN next
                ELSE EncodeChars(Tail(text), next))

encode_for_protocol(text) ==
    Bind(EncodeChars(text, <<>>),
         LAMBDA encoded : encoded \o Zeros(38 - Len(encoded)))

\* TextConfiguration::decode_from_protocol: stops at the first zero byte
RECURSIVE decode_from_protocol(_)
decode_from_protocol(data) ==
    IF data = <<>> \/ Head(data) = 0 THEN <<>>
    ELSE Bind(decode_key(Head(data)), LAMBDA key_name :
            (IF ~key_name.some
                THEN <<"<">> \o format_hex(Head(data)) \o <<">">>
             ELSE IF key_name.v = <<"s", "p", "a", "c", "e">> THEN <<" ">>
             ELSE IF Len(key_name.v) = 1 THEN key_name.v
             ELSE <<"<">> \o key_name.v \o <<">">>)
                \o decode_from_protocol(Tail(data)))

(***************************************************************************)
(* Packets (protocol/packets.rs).                                          *)
(***************************************************************************)
PACKET_SIZE == 40

\* ConfigType::from_u8
ConfigType_from_u8(value) ==
    CASE value = 0   -> Some("Unconfigured")
      [] value = 1   -> Some("Keyboard")
      [] value = 129 -> Some("KeyboardOnce")
      [] value = 2   -> Some("Mouse")
      [] value = 4   -> Some("Text")
      [] value = 6   -> Some("KeyboardMulti")
      [] value = 134 -> Some("KeyboardMultiOnce")
      [] value = 7   -> Some("Media")
      [] value = 8   -> Some("Game")
      [] OTHER       -> None

\* `ConfigType::X as u8`
ConfigType_as_u8(t) ==
    CASE t = "Unconfigured"      -> 0
      [] t = "Keyboard"          -> 1
      [] t = "KeyboardOnce"      -> 129
      [] t = "Mouse"             -> 2
      [] t = "Text"              -> 4
      [] t = "KeyboardMulti"     -> 6
      [] t = "KeyboardMultiOnce" -> 134
      [] t = "Media"             -> 7
      [] t = "Game"              -> 8

\* MediaButton::from_u8 and GameKey::from_u8: the enums are their codes
\* MediaButton::from_u8 without its last button
MediaButton_from_u8_short(value) == IF value \in 1..18 THEN Some(value) ELSE None

MediaButton_from_u8(value) == IF value \in 1..19 THEN Some(value) ELSE None
GameKey_from_u8(value) == IF value \in 1..12 THEN Some(value) ELSE None

\* TriggerMode::from_u8
TriggerMode_from_u8(value) ==
    CASE value = 0 -> Some("Release")
      [] value = 1 -> Some("Press")
      [] OTHER     -> None

\* ModifierKeys::from_bits_truncate (all eight bits are flags) and
\* ProtocolMouseButton::from_bits_truncate (five flags)
\* from_bits_truncate of a ModifierKeys without RIGHT_SUPER
ModifierKeys_from_bits_truncate_seven(bits) == BitAnd(bits, 127)

ModifierKeys_from_bits_truncate(bits) == BitAnd(bits, 255)
ProtocolMouseButton_from_bits_truncate(bits) == BitAnd(bits, 31)

\* a ConfigPacket that always declares the full length
ConfigPacket_full_size(size, config_type, data) ==
    [size |-> PACKET_SIZE, config_type |-> config_type, data |-> data]

ConfigPacket(size, config_type, data) ==
    [size |-> size, config_type |-> config_type, data |-> data]

\* ConfigPacket::unconfigured
ConfigPacket_unconfigured == ConfigPacket(0, 0, Zeros(38))

\* to_bytes with the type code before the declared length
to_bytes_type_first(packet) == <<packet.config_type, packet.size>> \o packet.data

\* ConfigPacket::to_bytes and ConfigPacket::from_bytes
to_bytes(packet) == <<packet.size, packet.config_type>> \o packet.data
from_bytes(bytes) == ConfigPacket(bytes[1], bytes[2], SubSeq(bytes, 3, PACKET_SIZE))

\* commands
BEGIN_WRITE == <<1, 128, 8, 1, 0, 0, 0, 0>>
READ_MODEL == <<1, 131, 8, 0, 0, 0, 0, 0>>
READ_TRIGGER_MODES == <<1, 134, 0, 0, 0, 0, 0, 0>>
read_config(pedal_index) == <<1, 130, 8, as_u8(pedal_index + 1), 0, 0, 0, 0>>
write_config_header(size, pedal_index) ==
    <<1, 129, size, as_u8(pedal_index + 1), 0, 0, 0, 0>>

(***************************************************************************)
(* The 40-byte packet codec (protocol/ikkegol.rs).                         *)
(***************************************************************************)
\* the name a keyboard scan code decodes to
KeyName(scan_code) == unwrap_or(decode_key(scan_code), format_hex(scan_code))

\* the names of the non-zero scan codes of a key array, in order
RECURSIVE KeyNames(_)
KeyNames(codes) ==
    IF codes = <<>> THEN <<>>
    ELSE IF Head(codes) = 0 THEN KeyNames(Tail(codes))
    ELSE <<KeyName(Head(codes))>> \o KeyNames(Tail(codes))

MouseButtonBits ==
    [Left |-> 1, Right |-> 2, Middle |-> 4, Back |-> 8, Forward |-> 16]

MouseButtons == {"Left", "Right", "Middle", "Back", "Forward"}

parse_config(packet) ==
    LET t == ConfigType_from_u8(packet.config_type)
        data == packet.data
    IN  IF ~t.some
            THEN Err(Protocol("Unknown config type", packet.config_type))
        ELSE CASE t.v = "Unconfigured" -> Ok(Unconfigured)
          [] t.v \in {"Keyboard", "KeyboardOnce", "KeyboardMulti", "KeyboardMultiOnce"} ->
                LET mode == IF t.v \in {"KeyboardOnce", "KeyboardMultiOnce"}
                            THEN "OneShot" ELSE "Standard"
                    keys == KeyNames(SubSeq(data, 2, 7))
                    modifiers == ModifierKeys_from_bits_truncate(data[1])
                IN  Ok(KeyboardConfiguration_with_modifiers(mode, keys, modifiers))
          [] t.v = "Mouse" ->
                IF data[3] # 0
                THEN LET proto_buttons == ProtocolMouseButton_from_bits_truncate(data[3])
                     IN  Ok(MouseConfiguration_buttons(
                            {b \in MouseButtons :
                                BitAnd(proto_buttons, MouseButtonBits[b]) # 0}))
                ELSE Ok(MouseConfiguration_axis(as_i8(data[4]), as_i8(data[5]),
                                                as_i8(data[6])))
          [] t.v = "Text" -> Ok(TextConfiguration_new(decode_from_protocol(data)))
          [] t.v = "Media" ->
                IF MediaButton_from_u8(data[1]).some
                THEN Ok(MediaConfiguration_new(MediaButton_from_u8(data[1]).v))
                ELSE Err(Protocol("Unknown media button", data[1]))
          [] t.v = "Game" ->
                IF GameKey_from_u8(data[1]).some
                THEN Ok(GamepadConfiguration_new(GameKey_from_u8(data[1]).v))
                ELSE Err(Protocol("Unknown game key", data[1]))

\* the value of one hexadecimal digit, of either case
HexDigitValue(ch) ==
    IF \E d \in 1..16 : to_lowercase_char(ch) = HexDigits[d]
    THEN Some((CHOOSE d \in 1..16 : to_lowercase_char(ch) = HexDigits[d]) - 1)
    ELSE None

\* one more digit d after the value acc, when the result fits a byte
HexStep(acc, d) ==
    IF d.some /\ acc * 16 + d.v <= 255 THEN Some(acc * 16 + d.v) ELSE None

\* u8::from_str_radix(s, 16): an optional '+', then hexadecimal digits whose
\* value fits a byte
RECURSIVE HexValue(_, _)
HexValue(digits, acc) ==
    IF digits = <<>> THEN Some(acc)
    ELSE Bind(HexStep(acc, HexDigitValue(Head(digits))),
              LAMBDA next : IF next.some THEN HexValue(Tail(digits), next.v) ELSE None)

u8_from_str_radix_16(s) ==
    LET digits == IF s # <<>> /\ Head(s) = "+" THEN Tail(s) ELSE s
    IN  IF digits = <<>> THEN None ELSE HexValue(digits, 0)

\* key.strip_prefix("0x") / key.starts_with("0x")
starts_with_0x(key) == Len(key) >= 2 /\ key[1] = "0" /\ key[2] = "x"

\* encode_config, the scan code stored for one key name
KeyCode(key) ==
    unwrap_or(or_else(IF starts_with_0x(key)
                      THEN u8_from_str_radix_16(SubSeq(key, 3, Len(key)))
                      ELSE None,
                      encode_key(key)),
              0)

\* the bitmask of a set of mouse buttons
RECURSIVE ButtonMask(_)
ButtonMask(buttons) ==
    IF buttons = {} THEN 0
    ELSE LET b == CHOOSE x \in buttons : TRUE
         IN  MouseButtonBits[b] + ButtonMask(buttons \ {b})

encode_config(config) ==
    CASE config.kind = "Unconfigured" -> Ok(ConfigPacket(0, 0, Zeros(38)))
      [] config.kind = "Keyboard" ->
            LET key_count == Len(config.keys)
                config_type ==
                    IF key_count > 1
                    THEN IF config.mode = "OneShot" THEN 134 ELSE 6
                    ELSE IF config.mode = "OneShot" THEN 129 ELSE 1
                keys == [i \in 1..6 |->
                            IF i <= key_count THEN KeyCode(config.keys[i]) ELSE 0]
            IN  Ok(ConfigPacket(40, config_type,
                                <<config.modifiers>> \o keys \o Zeros(31)))
      [] config.kind = "Mouse" ->
            LET m == config.mode
                mouse_data ==
                    IF m.m = "Buttons"
                    THEN <<0, 0, ButtonMask(m.buttons), 0, 0, 0>>
                    ELSE <<0, 0, 0, as_u8(m.x), as_u8(m.y), as_u8(m.wheel)>>
            IN  Ok(ConfigPacket(40, 2, mouse_data \o Zeros(32)))
      [] config.kind = "Text" ->
            Ok(ConfigPacket(40, 4, SubSeq(encode_for_protocol(config.text), 1, 38)))
      [] config.kind = "Media" ->
            Ok(ConfigPacket(40, 7, <<config.button>> \o Zeros(37)))
      [] config.kind = "Gamepad" ->
            Ok(ConfigPacket(40, 8, <<config.button>> \o Zeros(37)))

(***************************************************************************)
(* The 8-byte report codec of PCsensorDevice (device/pcsensor.rs).         *)
(***************************************************************************)
\* PCsensorDevice::parse_configuration; data is the 8-byte report, data[0]
\* of the source is data[1] here
parse_configuration(data) ==
    CASE data[2] = 0 -> Unconfigured
      [] data[2] \in {1, 129} ->
            KeyboardConfiguration_with_modifiers(
                IF data[2] = 129 THEN "OneShot" ELSE "Standard",
                IF data[4] # 0 THEN <<KeyName(data[4])>> ELSE <<>>,
                ModifierKeys_from_bits_truncate(data[3]))
      [] data[2] = 2 ->
            LET buttons == CASE data[5] = 1 -> {"Left"}
                             [] data[5] = 2 -> {"Right"}
                             [] data[5] = 4 -> {"Middle"}
                             [] OTHER -> {}
            IN  IF buttons # {}
                THEN MouseConfiguration_buttons(buttons)
                ELSE MouseConfiguration_axis(as_i8(data[6]), as_i8(data[7]),
                                             as_i8(data[8]))
      [] data[2] = 3 ->
            KeyboardConfiguration_with_modifiers(
                "Standard",
                IF data[4] # 0 THEN <<KeyName(data[4])>> ELSE <<>>,
                ModifierKeys_from_bits_truncate(data[3]))
      [] data[2] = 4 -> TextConfiguration_new(<<>>)
      [] OTHER -> Unconfigured

\* the number of leading non-zero bytes
RECURSIVE take_while_nonzero(_)
take_while_nonzero(data) ==
    IF data = <<>> \/ Head(data) = 0 THEN 0
    ELSE 1 + take_while_nonzero(Tail(data))

\* PCsensorDevice::encode_configuration
encode_configuration(config) ==
    CASE config.kind = "Keyboard" ->
            <<8, IF config.mode = "OneShot" THEN 129 ELSE 1, config.modifiers,
              IF config.keys = <<>> THEN 0
              ELSE IF starts_with_0x(config.keys[1])
                   THEN unwrap_or(u8_from_str_radix_16(
                                    SubSeq(config.keys[1], 3, Len(config.keys[1]))), 0)
                   ELSE unwrap_or(encode_key(config.keys[1]), 0),
              0, 0, 0, 0>>
      [] config.kind = "Mouse" ->
            IF config.mode.m = "Buttons"
            THEN <<8, 2, 0, 0,
                   ButtonMask(config.mode.buttons \cap {"Left", "Right", "Middle"}),
                   0, 0, 0>>
            ELSE <<8, 2, 0, 0, 0, as_u8(config.mode.x), as_u8(config.mode.y),
                   as_u8(config.mode.wheel)>>
      [] config.kind = "Text" ->
            Bind(encode_for_protocol(config.text), LAMBDA text_data :
                LET text_len == take_while_nonzero(text_data)
                    packet == <<Min(text_len + 2, 40), 4>>
                                \o SubSeq(text_data, 1, Min(text_len, 38))
                IN  packet \o Zeros(IF Len(packet) < 8 THEN 8 - Len(packet) ELSE 0))
      [] OTHER -> <<8, 0, 0, 0, 0, 0, 0, 0>>

(***************************************************************************)
(* Device sessions (device/ikkegol.rs, device/pcsensor.rs).                *)
(*                                                                         *)
(* A session is the record `self` of a driver: its capabilities, the three *)
(* vectors it caches, and the device it talks to.  Slot i of the source    *)
(* (0-based) is element i + 1 of a vector here.  The device answers a read *)
(* command with the reports it holds for the addressed slot, one report    *)
(* per read, and a read beyond the last report returns no bytes; what it   *)
(* holds is an input of the session and stays as it was found.  `io` is    *)
(* the list of the hidapi calls of the running operation: each write and   *)
(* each read, with the pedal it was issued for and its outcome.            *)
(***************************************************************************)
VARIABLES
    driver,             \* "Ikkegol" or "PCsensor": the type of the session
    model,              \* IkkegolModel / PCsensorModel
    capabilities,       \* DeviceCapabilities
    configurations,     \* Mutex<Vec<Configuration>>
    trigger_modes,      \* Mutex<Vec<TriggerMode>>
    modified_pedals,    \* Mutex<Vec<bool>>
    device,             \* the physical device behind Mutex<HidDevice>
    io,                 \* the hidapi calls of the latest operation
    result,             \* the latest operation, its arguments and what it returned
    codec_call,         \* the latest call of a function of the codecs or the keymap
    command,            \* the latest run of the command line program
    threads,            \* the threads calling methods of the session at once
    usb,                \* a raw USB handle and the UsbInterfaceLock on it
    requested           \* the configurations set on a session, where they are followed

vars == <<driver, model, capabilities, configurations, trigger_modes,
          modified_pedals, device, io, result, codec_call, command,
          threads, usb, requested>>

\* the session as the record the methods work on
Self ==
    [driver |-> driver, model |-> model, capabilities |-> capabilities,
     configurations |-> configurations, trigger_modes |-> trigger_modes,
     modified_pedals |-> modified_pedals, device |-> device, io |-> <<>>]

\* what a method hands back: the session it leaves and its Result
Return(self, res) == [self |-> self, res |-> res]

\* the `?` operator: the code K goes on from the outcome r of a call when
\* that is Ok, and the method returns r when it is an error
Try(r, K(_)) == IF r.res.ok THEN K(r) ELSE r

\* IkkegolModel::capabilities
IkkegolCapabilities(m) ==
    IF m \in {"FS2017U1IR", "FootSwitch1P"}
    THEN [pedal_count |-> 1, first_pedal_index |-> 1, pedal_names |-> <<<<"p", "e", "d", "a", "l">>>>]
    ELSE [pedal_count |-> 3, first_pedal_index |-> 0,
          pedal_names |-> <<<<"l", "e", "f", "t">>, <<"m", "i", "d", "d", "l", "e">>,
                            <<"r", "i", "g", "h", "t">>>>]

\* PCsensorDevice::new, the capabilities of the model
PCsensorCapabilities(m) ==
    IF m = "FootSwitch1Pedal"
    THEN [pedal_count |-> 1, first_pedal_index |-> 0, pedal_names |-> <<<<"p", "e", "d", "a", "l">>>>]
    ELSE [pedal_count |-> 3, first_pedal_index |-> 0,
          pedal_names |-> <<<<"l", "e", "f", "t">>, <<"m", "i", "d", "d", "l", "e">>,
                            <<"r", "i", "g", "h", "t">>>>]

\* get_protocol_index leaving out the offset of the first pedal
get_protocol_index_no_offset(caps, pedal_index) ==
    IF pedal_index < caps.pedal_count THEN Some(pedal_index) ELSE None

\* DeviceCapabilities::get_protocol_index
get_protocol_index(caps, pedal_index) ==
    IF pedal_index < caps.pedal_count
    THEN Some(caps.first_pedal_index + pedal_index)
    ELSE None

(***************************************************************************)
(* hidapi calls.  A fault is the one call of an operation that hidapi      *)
(* fails, and the PedalError kind its HidError converts to; NoFault fails  *)
(* none.  A fault of kind NoBytes is a read_timeout whose time runs out:   *)
(* hidapi returns Ok(0), and the device delivers nothing more for the      *)
(* exchange.                                                               *)
(***************************************************************************)
NoFault == [at |-> 0, kind |-> ""]

NoBytes == "NoBytes"

Faulty(self, fault) == fault.at = Len(self.io) + 1

Event(call, part, pedal, data, res) ==
    [call |-> call, part |-> part, pedal |-> pedal, data |-> data, res |-> res]

\* A device that stores what is written to it has a cursor, the wire slot
\* of the latest write header: the header empties the slot and the reports
\* after it are what the slot holds.  A device without a cursor answers
\* every read with what it held at first.
DeviceStore(dev, part, data) ==
    IF ~("cursor" \in DOMAIN dev) THEN dev
    ELSE IF part = "header"
    THEN [dev EXCEPT !.cursor = data[4],
                     !.slots = [s \in DOMAIN dev.slots |->
                                   IF s = data[4] THEN <<>> ELSE dev.slots[s]]]
    ELSE IF part = "body" /\ dev.cursor \in DOMAIN dev.slots
    THEN [dev EXCEPT !.slots[dev.cursor] = Append(@, data)]
    ELSE dev

\* hid_write: device.write(report id + data); Ok or the converted HidError
hid_write(self, fault, part, pedal, data) ==
    IF Faulty(self, fault) /\ fault.kind # NoBytes
    THEN Return([self EXCEPT !.io = Append(@, Event("write", part, pedal, data, fault.kind))],
                Err(HidFailure(fault.kind)))
    ELSE Return([self EXCEPT !.io = Append(@, Event("write", part, pedal, data, "ok")),
                             !.device = DeviceStore(@, part, data)],
                Ok(0))

\* the reports the device still has to deliver for the running exchange
Pending(self) == self.device.pending

\* device.read_timeout: the next pending report, or no bytes
read_timeout(self, fault, part, pedal) ==
    IF Faulty(self, fault) /\ fault.kind # NoBytes
    THEN Return([self EXCEPT !.io = Append(@, Event("read", part, pedal, <<>>, fault.kind))],
                Err(HidFailure(fault.kind)))
    ELSE IF Faulty(self, fault) \/ Pending(self) = <<>>
    THEN Return([self EXCEPT !.io = Append(@, Event("read", part, pedal, <<>>, "ok")),
                             !.device.pending = <<>>],
                Ok(<<>>))
    ELSE Return([self EXCEPT !.io = Append(@, Event("read", part, pedal,
                                                    Head(Pending(self)), "ok")),
                             !.device.pending = Tail(@)],
                Ok(Head(Pending(self))))

\* the device receives a read command for a wire slot and queues its answer
DeviceQuery(self, slot) ==
    [self EXCEPT !.device.pending =
        IF slot \in DOMAIN self.device.slots THEN self.device.slots[slot] ELSE <<>>]

\* the device receives the read-trigger-modes command
DeviceQueryTriggers(self) ==
    [self EXCEPT !.device.pending = self.device.triggers]

\* a report as the 8-byte buffer it is read into
Buffer8(report) == report \o Zeros(8 - Len(report))

(***************************************************************************)
(* IkkegolDevice (device/ikkegol.rs).                                      *)
(***************************************************************************)
\* IkkegolDevice::hid_read: Timeout when no byte was read
Ikkegol_hid_read(self, fault, part, pedal) ==
    Try(read_timeout(self, fault, part, pedal), LAMBDA r :
        IF Len(r.res.v) = 0 THEN Return(r.self, Err(Timeout))
        ELSE Return(r.self, Ok(Buffer8(r.res.v))))

\* read_pedal_config, the loop `while offset < 40`: packet_bytes holds the
\* chunks read so far, so offset = Len(packet_bytes)
RECURSIVE Ikkegol_read_chunks(_, _, _, _)
Ikkegol_read_chunks(self, fault, pedal_index, packet_bytes) ==
    IF Len(packet_bytes) >= PACKET_SIZE THEN Return(self, Ok(packet_bytes))
    ELSE Bind(Ikkegol_hid_read(self, fault, "config", pedal_index), LAMBDA r :
            IF r.res.ok
            THEN Ikkegol_read_chunks(r.self, fault, pedal_index,
                     packet_bytes \o SubSeq(r.res.v, 1,
                                            Min(8, PACKET_SIZE - Len(packet_bytes))))
            ELSE IF r.res.err.kind = "Timeout" /\ Len(packet_bytes) > 0
            THEN Return(r.self,
                        Ok(packet_bytes \o Zeros(PACKET_SIZE - Len(packet_bytes))))
            ELSE Return(r.self, Err(r.res.err)))

\* IkkegolDevice::read_pedal_config
Ikkegol_read_pedal_config(self, fault, pedal_index) ==
    IF pedal_index >= self.capabilities.pedal_count
    THEN Return(self, Err(InvalidPedalIndex(pedal_index, self.capabilities.pedal_count)))
    ELSE
    LET protocol_index == get_protocol_index(self.capabilities, pedal_index).v
        cmd == read_config(protocol_index)
    IN  Try(hid_write(self, fault, "read_config", pedal_index, cmd), LAMBDA w :
        Try(Ikkegol_read_chunks(DeviceQuery(w.self, cmd[4]), fault, pedal_index, <<>>),
            LAMBDA rd :
        Bind(parse_config(from_bytes(rd.res.v)), LAMBDA config :
            IF ~config.ok THEN Return(rd.self, Err(config.err))
            ELSE Return([rd.self EXCEPT !.configurations[pedal_index + 1] = config.v],
                        Ok(0)))))

\* IkkegolDevice::read_trigger_modes
Ikkegol_read_trigger_modes(self, fault) ==
    Try(hid_write(self, fault, "read_trigger_modes", 0, READ_TRIGGER_MODES), LAMBDA w :
    Try(Ikkegol_hid_read(DeviceQueryTriggers(w.self), fault, "trigger", 0), LAMBDA rd :
        Return([rd.self EXCEPT !.trigger_modes =
                    [i \in 1..self.capabilities.pedal_count |->
                        IF i - 1 < 8
                        THEN unwrap_or(TriggerMode_from_u8(rd.res.v[i]), "Press")
                        ELSE self.trigger_modes[i]]],
               Ok(0))))

\* load_configuration, the loop over the pedals from pedal_index on
RECURSIVE Ikkegol_load_pedals(_, _, _)
Ikkegol_load_pedals(self, fault, pedal_index) ==
    IF pedal_index >= self.capabilities.pedal_count THEN Return(self, Ok(0))
    ELSE Try(Ikkegol_read_pedal_config(self, fault, pedal_index), LAMBDA r :
             Ikkegol_load_pedals(r.self, fault, pedal_index + 1))

\* load_configuration clearing the modification flags before it reads
Ikkegol_load_configuration_clears_first(self, fault) ==
    Try(Ikkegol_load_pedals(
            [self EXCEPT !.modified_pedals =
                [i \in 1..Len(self.modified_pedals) |-> FALSE]], fault, 0),
        LAMBDA pedals :
    Try(Ikkegol_read_trigger_modes(pedals.self, fault), LAMBDA tm :
        Return([tm.self EXCEPT
                    !.configurations =
                        [i \in 1..self.capabilities.pedal_count |->
                            set_trigger(tm.self.configurations[i],
                                        TriggerFromMode(tm.self.trigger_modes[i]))]],
               Ok(0))))

\* load_configuration reading the trigger modes before the pedals
Ikkegol_load_configuration_triggers_first(self, fault) ==
    Try(Ikkegol_read_trigger_modes(self, fault), LAMBDA tm :
    Try(Ikkegol_load_pedals(tm.self, fault, 0), LAMBDA pedals :
        Return([pedals.self EXCEPT
                    !.configurations =
                        [i \in 1..self.capabilities.pedal_count |->
                            set_trigger(pedals.self.configurations[i],
                                        TriggerFromMode(pedals.self.trigger_modes[i]))],
                    !.modified_pedals =
                        [i \in 1..Len(pedals.self.modified_pedals) |-> FALSE]],
               Ok(0))))

\* IkkegolDevice::load_configuration
Ikkegol_load_configuration(self, fault) ==
    Try(Ikkegol_load_pedals(self, fault, 0), LAMBDA pedals :
    Try(Ikkegol_read_trigger_modes(pedals.self, fault), LAMBDA tm :
        Return([tm.self EXCEPT
                    !.configurations =
                        [i \in 1..self.capabilities.pedal_count |->
                            set_trigger(tm.self.configurations[i],
                                        TriggerFromMode(tm.self.trigger_modes[i]))],
                    !.modified_pedals =
                        [i \in 1..Len(tm.self.modified_pedals) |-> FALSE]],
               Ok(0))))

\* write_pedal_config, the loop over packet_bytes.chunks(8)
RECURSIVE write_chunks(_, _, _, _)
write_chunks(self, fault, pedal_index, chunks) ==
    IF chunks = <<>> THEN Return(self, Ok(0))
    ELSE Try(hid_write(self, fault, "body", pedal_index, Buffer8(Head(chunks))),
             LAMBDA w : write_chunks(w.self, fault, pedal_index, Tail(chunks)))

\* slice.chunks(8)
RECURSIVE chunks8(_)
chunks8(bytes) ==
    IF bytes = <<>> THEN <<>>
    ELSE IF Len(bytes) <= 8 THEN <<bytes>>
    ELSE <<SubSeq(bytes, 1, 8)>> \o chunks8(SubSeq(bytes, 9, Len(bytes)))

\* IkkegolDevice::write_pedal_config
Ikkegol_write_pedal_config(self, fault, pedal_index) ==
    IF pedal_index >= self.capabilities.pedal_count
    THEN Return(self, Err(InvalidPedalIndex(pedal_index, self.capabilities.pedal_count)))
    ELSE
    LET protocol_index == get_protocol_index(self.capabilities, pedal_index).v
        config == self.configurations[pedal_index + 1]
    IN  Try(hid_write(self, fault, "begin", pedal_index, BEGIN_WRITE), LAMBDA begin :
        Bind(encode_config(config), LAMBDA packet :
            IF ~packet.ok THEN Return(begin.self, Err(packet.err))
            ELSE
            Try(hid_write(begin.self, fault, "header", pedal_index,
                          write_config_header(packet.v.size, protocol_index)),
                LAMBDA header :
            Try(write_chunks(header.self, fault, pedal_index,
                             chunks8(to_bytes(packet.v))),
                LAMBDA body : Return(body.self, Ok(0))))))

\* the loop of save_configuration going on to the next pedal after a
\* failed write, and returning the first error at the end
RECURSIVE Ikkegol_save_pedals_keeps_going(_, _, _)
Ikkegol_save_pedals_keeps_going(self, fault, modified_indices) ==
    IF modified_indices = <<>> THEN Return(self, Ok(0))
    ELSE Bind(Ikkegol_write_pedal_config(self, fault, Head(modified_indices)), LAMBDA r :
         Bind(Ikkegol_save_pedals_keeps_going(r.self, fault, Tail(modified_indices)),
              LAMBDA rest : IF ~r.res.ok THEN Return(rest.self, r.res) ELSE rest))

\* save_configuration, `for i in modified_indices`
RECURSIVE Ikkegol_save_pedals(_, _, _)
Ikkegol_save_pedals(self, fault, modified_indices) ==
    IF modified_indices = <<>> THEN Return(self, Ok(0))
    ELSE Try(Ikkegol_write_pedal_config(self, fault, Head(modified_indices)), LAMBDA r :
             Ikkegol_save_pedals(r.self, fault, Tail(modified_indices)))

\* the indices collected without the filter on the flag
RECURSIVE filter_modified_all(_, _, _)
filter_modified_all(modified, i, pedal_count) ==
    IF i >= pedal_count THEN <<>>
    ELSE <<i>> \o filter_modified_all(modified, i + 1, pedal_count)

\* (0..pedal_count).filter(|&i| modified_pedals[i]).collect()
RECURSIVE filter_modified(_, _, _)
filter_modified(modified, i, pedal_count) ==
    IF i >= pedal_count THEN <<>>
    ELSE (IF modified[i + 1] THEN <<i>> ELSE <<>>)
            \o filter_modified(modified, i + 1, pedal_count)

\* IkkegolDevice::save_configuration
Ikkegol_save_configuration(self, fault) ==
    Try(Ikkegol_save_pedals(self, fault,
            filter_modified(self.modified_pedals, 0, self.capabilities.pedal_count)),
        LAMBDA written :
            Return([written.self EXCEPT !.modified_pedals =
                        [i \in 1..Len(self.modified_pedals) |-> FALSE]],
                   Ok(0)))

(***************************************************************************)
(* PCsensorDevice (device/pcsensor.rs).                                    *)
(***************************************************************************)
\* PCsensorDevice::hid_read: Timeout when no byte was read, a protocol
\* error when the report is not 8 bytes long
PCsensor_hid_read(self, fault, part, pedal) ==
    Try(read_timeout(self, fault, part, pedal), LAMBDA r :
        IF Len(r.res.v) = 0 THEN Return(r.self, Err(Timeout))
        ELSE IF Len(r.res.v) # 8
             THEN Return(r.self, Err(Protocol("Expected 8 bytes", Len(r.res.v))))
        ELSE r)

\* the loop reading until the 38 bytes of the text are filled, whatever
\* length the first report declares
RECURSIVE PCsensor_read_text_to_the_end(_, _, _, _, _, _)
PCsensor_read_text_to_the_end(self, fault, pedal_index, text_len, bytes_read, text_data) ==
    IF bytes_read >= 38 THEN Return(self, Ok(text_data))
    ELSE Try(PCsensor_hid_read(self, fault, "text", pedal_index), LAMBDA r :
            LET chunk_len == Min(38 - bytes_read, 8)
            IN  PCsensor_read_text_to_the_end(r.self, fault, pedal_index, text_len,
                    bytes_read + chunk_len,
                    [k \in 1..38 |->
                        IF k > bytes_read /\ k <= bytes_read + chunk_len
                        THEN r.res.v[k - bytes_read]
                        ELSE text_data[k]]))

\* read_pedal_config, the loop `while bytes_read < text_len`
RECURSIVE PCsensor_read_text(_, _, _, _, _, _)
PCsensor_read_text(self, fault, pedal_index, text_len, bytes_read, text_data) ==
    IF bytes_read >= text_len THEN Return(self, Ok(text_data))
    ELSE Try(PCsensor_hid_read(self, fault, "text", pedal_index), LAMBDA r :
            LET chunk_len == Min(text_len - bytes_read, 8)
            IN  PCsensor_read_text(r.self, fault, pedal_index, text_len,
                    bytes_read + chunk_len,
                    [k \in 1..38 |->
                        IF k > bytes_read /\ k <= bytes_read + chunk_len
                        THEN r.res.v[k - bytes_read]
                        ELSE text_data[k]]))

\* PCsensorDevice::read_pedal_config
PCsensor_read_pedal_config(self, fault, pedal_index) ==
    IF pedal_index >= self.capabilities.pedal_count
    THEN Return(self, Err(InvalidPedalIndex(pedal_index, self.capabilities.pedal_count)))
    ELSE
    LET query == <<1, 130, 8, as_u8(pedal_index + 1), 0, 0, 0, 0>>
    IN  Try(hid_write(self, fault, "read_config", pedal_index, query), LAMBDA w :
        Try(PCsensor_hid_read(DeviceQuery(w.self, query[4]), fault, "config", pedal_index),
            LAMBDA first :
            LET response == first.res.v
                text_len == Min(IF response[1] >= 2 THEN response[1] - 2 ELSE 0, 38)
                first_chunk_len == Min(text_len, 6)
                text_data == [k \in 1..38 |->
                                 IF k <= first_chunk_len THEN response[2 + k] ELSE 0]
            IN  IF response[2] = 4
                THEN Try(PCsensor_read_text(first.self, fault, pedal_index,
                                            text_len, 6, text_data),
                         LAMBDA text :
                            Return([text.self EXCEPT
                                       !.configurations[pedal_index + 1] =
                                           TextConfiguration_new(
                                               decode_from_protocol(text.res.v)),
                                       !.trigger_modes[pedal_index + 1] = "Press"],
                                   Ok(0)))
                ELSE Return([first.self EXCEPT
                                !.configurations[pedal_index + 1] =
                                    parse_configuration(response),
                                !.trigger_modes[pedal_index + 1] =
                                    IF BitAnd(response[2], 128) # 0
                                    THEN "Release" ELSE "Press"],
                            Ok(0))))

\* write_pedal_config, the reports of a text configuration: the first with
\* length, type and six codes, then `while offset < text_len`
RECURSIVE PCsensor_text_rest(_, _, _)
PCsensor_text_rest(text_data, text_len, offset) ==
    IF offset >= text_len THEN <<>>
    ELSE <<Buffer8(SubSeq(text_data, offset + 1,
                          offset + Min(text_len - offset, 8)))>>
            \o PCsensor_text_rest(text_data, text_len, offset + 8)

PCsensor_text_reports(text) ==
    Bind(encode_for_protocol(text), LAMBDA text_data :
        LET text_len == take_while_nonzero(text_data)
            first_chunk_len == Min(text_len, 6)
            first_packet == <<Min(text_len + 2, 40), 4>>
                                \o SubSeq(text_data, 1, first_chunk_len)
                                \o Zeros(6 - first_chunk_len)
        IN  <<first_packet>> \o PCsensor_text_rest(text_data, text_len, 6))

\* PCsensorDevice::write_pedal_config
PCsensor_write_pedal_config(self, fault, pedal_index) ==
    IF pedal_index >= self.capabilities.pedal_count
    THEN Return(self, Err(InvalidPedalIndex(pedal_index, self.capabilities.pedal_count)))
    ELSE
    LET config == self.configurations[pedal_index + 1]
    IN  Try(hid_write(self, fault, "begin", pedal_index, <<1, 128, 8, 0, 0, 0, 0, 0>>),
            LAMBDA start :
        Try(hid_write(start.self, fault, "header", pedal_index,
                      <<1, 129, 8, as_u8(pedal_index + 1), 0, 0, 0, 0>>),
            LAMBDA header :
        Try(write_chunks(header.self, fault, pedal_index,
                         IF config.kind = "Text"
                         THEN PCsensor_text_reports(config.text)
                         ELSE chunks8(encode_configuration(config))),
            LAMBDA body : Return(body.self, Ok(0)))))

\* save_configuration, the placeholder written for a pedal the device lacks
PCsensor_write_empty(self, fault, i) ==
    Try(hid_write(self, fault, "header", i, <<1, 129, 8, as_u8(i + 1), 0, 0, 0, 0>>),
        LAMBDA header :
            hid_write(header.self, fault, "body", i, <<8, 0, 0, 0, 0, 0, 0, 0>>))

\* save_configuration, `for i in 0..3`
RECURSIVE PCsensor_save_pedals(_, _, _)
PCsensor_save_pedals(self, fault, i) ==
    IF i >= 3 THEN Return(self, Ok(0))
    ELSE Try(IF i < self.capabilities.pedal_count
             THEN PCsensor_write_pedal_config(self, fault, i)
             ELSE PCsensor_write_empty(self, fault, i),
             LAMBDA r : PCsensor_save_pedals(r.self, fault, i + 1))

\* PCsensorDevice::save_configuration
PCsensor_save_configuration(self, fault) == PCsensor_save_pedals(self, fault, 0)

\* load_configuration, the loop over the pedals from pedal_index on
RECURSIVE PCsensor_load_pedals(_, _, _)
PCsensor_load_pedals(self, fault, pedal_index) ==
    IF pedal_index >= self.capabilities.pedal_count THEN Return(self, Ok(0))
    ELSE Try(PCsensor_read_pedal_config(self, fault, pedal_index), LAMBDA r :
             PCsensor_load_pedals(r.self, fault, pedal_index + 1))

\* PCsensorDevice::load_configuration
PCsensor_load_configuration(self, fault) == PCsensor_load_pedals(self, fault, 0)

(***************************************************************************)
(* The PedalDevice trait, dispatched on the driver (device/traits.rs).     *)
(***************************************************************************)
load_configuration(self, fault) ==
    IF self.driver = "Ikkegol" THEN Ikkegol_load_configuration(self, fault)
    ELSE PCsensor_load_configuration(self, fault)

save_configuration(self, fault) ==
    IF self.driver = "Ikkegol" THEN Ikkegol_save_configuration(self, fault)
    ELSE PCsensor_save_configuration(self, fault)

\* get_pedal_configuration, the same in both drivers
get_pedal_configuration(self, pedal_index) ==
    IF pedal_index >= self.capabilities.pedal_count
    THEN Err(InvalidPedalIndex(pedal_index, self.capabilities.pedal_count))
    ELSE Ok(self.configurations[pedal_index + 1])

\* set_pedal_configuration with the bound check off by one
set_pedal_configuration_off_by_one(self, pedal_index, config) ==
    IF pedal_index > self.capabilities.pedal_count
    THEN Return(self, Err(InvalidPedalIndex(pedal_index, self.capabilities.pedal_count)))
    ELSE Return([self EXCEPT !.configurations[pedal_index + 1] = config,
                             !.modified_pedals[pedal_index + 1] = TRUE],
                Ok(0))

\* set_pedal_configuration adding the configuration at the end of the cache
set_pedal_configuration_push(self, pedal_index, config) ==
    IF pedal_index >= self.capabilities.pedal_count
    THEN Return(self, Err(InvalidPedalIndex(pedal_index, self.capabilities.pedal_count)))
    ELSE Return([self EXCEPT !.configurations = Append(@, config),
                             !.modified_pedals[pedal_index + 1] = TRUE],
                Ok(0))

\* set_pedal_configuration marking every pedal modified
set_pedal_configuration_marks_all(self, pedal_index, config) ==
    IF pedal_index >= self.capabilities.pedal_count
    THEN Return(self, Err(InvalidPedalIndex(pedal_index, self.capabilities.pedal_count)))
    ELSE Return([self EXCEPT !.configurations[pedal_index + 1] = config,
                             !.modified_pedals =
                                [j \in 1..Len(self.modified_pedals) |-> TRUE]],
                Ok(0))

\* set_pedal_configuration, the same in both drivers
set_pedal_configuration(self, pedal_index, config) ==
    IF pedal_index >= self.capabilities.pedal_count
    THEN Return(self, Err(InvalidPedalIndex(pedal_index, self.capabilities.pedal_count)))
    ELSE Return([self EXCEPT !.configurations[pedal_index + 1] = config,
                             !.modified_pedals[pedal_index + 1] = TRUE],
                Ok(0))

\* has_modifications, the same in both drivers
has_modifications(self) ==
    \E i \in 1..Len(self.modified_pedals) : self.modified_pedals[i]

(***************************************************************************)
(* Inputs: the sessions, devices, configurations and faults explored.      *)
(***************************************************************************)
\* the largest pedal index passed to get_ and set_pedal_configuration
MaxPedalIndex == 3

\* the largest position, among the hidapi calls of one operation, of the
\* call that fails
MaxFaultAt == 9

\* the PedalError kinds a failing hidapi call is converted to
FaultKinds == {"Hid", "Timeout"}

Faults == {NoFault} \cup [at : 1..MaxFaultAt, kind : FaultKinds \cup {NoBytes}]

\* the sessions: a driver and a model of it
Sessions ==
    {<<"Ikkegol", "FS2020U1IR">>, <<"Ikkegol", "FS2017U1IR">>,
     <<"PCsensor", "FootSwitch3Pedal">>, <<"PCsensor", "FootSwitch1Pedal">>}

\* the configurations passed to set_pedal_configuration
KeyboardB == KeyboardConfiguration_with_modifiers("Standard", <<<<"b">>>>, 2)
TextHi == TextConfiguration_new(<<"H", "i", " ", "t", "h", "e", "r", "e">>)
SetConfigs == {TextHi}

\* what the 40-byte-packet devices hold in a slot: the five reports of a
\* packet, or fewer
KeyboardPacket == ConfigPacket(40, 1, <<1, 4>> \o Zeros(36))
MousePacket == ConfigPacket(40, 2, <<0, 0, 0, 10, 236, 5>> \o Zeros(32))
MediaPacket == ConfigPacket(40, 7, <<4>> \o Zeros(37))
UnknownPacket == ConfigPacket(40, 5, <<1, 4>> \o Zeros(36))

IkkegolImages ==
    {[slots |-> <<chunks8(to_bytes(KeyboardPacket)), chunks8(to_bytes(MousePacket)),
                  chunks8(to_bytes(MediaPacket))>>,
      triggers |-> <<<<1, 0, 2, 0, 0, 0, 0, 0>>>>, pending |-> <<>>],
     [slots |-> <<SubSeq(chunks8(to_bytes(MediaPacket)), 1, 2),
                  chunks8(to_bytes(UnknownPacket)),
                  chunks8(to_bytes(KeyboardPacket))>>,
      triggers |-> <<>>, pending |-> <<>>]}

\* what the 8-byte-report devices hold in a slot: one report, or the
\* reports of a text
PCsensorImages ==
    {[slots |-> <<<<<<8, 129, 1, 4, 0, 0, 0, 0>>>>, <<<<8, 2, 0, 0, 0, 3, 253, 0>>>>,
                  PCsensor_text_reports(<<"o", "n", "e", " ", "t", "w", "o">>)>>,
      triggers |-> <<>>, pending |-> <<>>],
     [slots |-> <<<<<<8, 5, 1, 4, 0, 0, 0, 0>>>>, <<<<8, 3, 1, 4, 0, 0, 0, 0>>>>,
                  <<<<8, 2, 0, 0, 1, 0, 0, 0>>>>>>,
      triggers |-> <<>>, pending |-> <<>>]}

(***************************************************************************)
(* Construction.                                                           *)
(***************************************************************************)
\* IkkegolDevice::new and PCsensorDevice::new, up to the first use of the
\* device: capabilities of the model and the three vectors
NewSession(d, m, image) ==
    LET caps == IF d = "Ikkegol" THEN IkkegolCapabilities(m)
                ELSE PCsensorCapabilities(m)
    IN  [driver |-> d, model |-> m, capabilities |-> caps,
         configurations |-> [i \in 1..caps.pedal_count |-> Unconfigured],
         trigger_modes |-> [i \in 1..caps.pedal_count |-> "Press"],
         modified_pedals |-> [i \in 1..caps.pedal_count |-> FALSE],
         device |-> image, io |-> <<>>]

\* the constructor: PCsensorDevice::new loads the configuration and fails
\* when the load fails
Construct(d, m, image) ==
    IF d = "Ikkegol" THEN Return(NewSession(d, m, image), Ok(0))
    ELSE PCsensor_load_configuration(NewSession(d, m, image), NoFault)

\* the state variables take the fields of the session an operation leaves
Becomes(self) ==
    /\ driver' = self.driver
    /\ model' = self.model
    /\ capabilities' = self.capabilities
    /\ configurations' = self.configurations
    /\ trigger_modes' = self.trigger_modes
    /\ modified_pedals' = self.modified_pedals
    /\ device' = [self.device EXCEPT !.pending = <<>>]
    /\ io' = self.io
    /\ codec_call' = codec_call

\* no function of the codecs or the keymap has been called on its own
NoCall == [fn |-> "", input |-> [sort |-> "", v |-> 0]]

\* the command line program has not run
NoCommand == [name |-> ""]

\* the methods of the session are called one after the other
NoThreads == <<>>

\* no raw USB handle is open
NoUsb == [pc |-> ""]

\* the configurations set are not followed
NoRequests == <<>>

Outcome(op, pedal_index, config, res) ==
    [op |-> op, pedal_index |-> pedal_index, config |-> config, res |-> res]

\* the first state of a session: what its constructor leaves, when the
\* constructor succeeds
Starts(new) ==
    /\ new.res.ok
    /\ driver = new.self.driver
    /\ model = new.self.model
    /\ capabilities = new.self.capabilities
    /\ configurations = new.self.configurations
    /\ trigger_modes = new.self.trigger_modes
    /\ modified_pedals = new.self.modified_pedals
    /\ device = [new.self.device EXCEPT !.pending = <<>>]
    /\ io = new.self.io
    /\ result = Outcome("new", 0, Unconfigured, new.res)
    /\ codec_call = NoCall
    /\ command = NoCommand
    /\ threads = NoThreads
    /\ usb = NoUsb
    /\ requested = NoRequests

Init ==
    \E s \in Sessions :
        \E image \in (IF s[1] = "Ikkegol" THEN IkkegolImages ELSE PCsensorImages) :
            Starts(Construct(s[1], s[2], image))

\* a call of a method ends: the session is as the method r leaves it
Ends(op, pedal_index, config, r) ==
    /\ Becomes(r.self)
    /\ result' = Outcome(op, pedal_index, config, r.res)
    /\ UNCHANGED <<command, threads, usb>>

Finish(op, pedal_index, config, r) ==
    /\ Ends(op, pedal_index, config, r)
    /\ requested' = requested

(***************************************************************************)
(* Operations.                                                             *)
(***************************************************************************)
SetPedalConfiguration(pedal_index, config) ==
    Finish("set", pedal_index, config,
           set_pedal_configuration(Self, pedal_index, config))

GetPedalConfiguration(pedal_index) ==
    /\ Becomes(Self)
    /\ result' = Outcome("get", pedal_index, Unconfigured,
                         get_pedal_configuration(Self, pedal_index))
    /\ UNCHANGED <<command, threads, usb, requested>>

LoadConfiguration(fault) ==
    Finish("load", 0, Unconfigured, load_configuration(Self, fault))

SaveConfiguration(fault) ==
    Finish("save", 0, Unconfigured, save_configuration(Self, fault))

Next ==
    \/ \E pedal_index \in 0..MaxPedalIndex, config \in SetConfigs :
            SetPedalConfiguration(pedal_index, config)
    \/ \E pedal_index \in 0..MaxPedalIndex : GetPedalConfiguration(pedal_index)
    \/ \E fault \in Faults : LoadConfiguration(fault)
    \/ \E fault \in Faults : SaveConfiguration(fault)

Spec == Init /\ [][Next]_vars

(***************************************************************************)
(* The codecs and the keymap on their own: a configuration or a key name   *)
(* is chosen, and the functions are applied to it.                         *)
(***************************************************************************)
\* the largest number of keys of a KeyboardConfiguration
MaxKeys == 6

\* the key names of the keyboard configurations: names of the table, of
\* either case, a hexadecimal scan code, and a name the table lacks
KeyPool ==
    <<<<"a">>, <<"F", "5">>, <<"e", "n", "t", "e", "r">>, <<"0", "x", "2", "c">>,
      <<"B">>, <<"e", "s", "c">>, <<"n", "o", "k", "e", "y">>, <<"z">>>>

\* the key lists: the runs of the pool of at most MaxKeys keys
KeyLists ==
    {keys \in {SubSeq(KeyPool, i, j) : i \in 1..Len(KeyPool), j \in 0..Len(KeyPool)} :
        Len(keys) <= MaxKeys}

\* modifier bytes: none, single flags, several flags, all eight
ModifierSamples == {0, 1, 2, 5, 128, 255}

KeyboardInputs ==
    {KeyboardConfiguration_with_modifiers(mode, keys, modifiers) :
        mode \in {"Standard", "OneShot"}, keys \in KeyLists,
        modifiers \in ModifierSamples}

\* axis values of the i8 range: its ends, zero and its neighbours
AxisSamples == {-128, -1, 0, 1, 127}

MouseInputs ==
    {MouseConfiguration_buttons(buttons) : buttons \in SUBSET MouseButtons}
        \cup {MouseConfiguration_axis(x, y, wheel) :
                x \in AxisSamples, y \in AxisSamples, wheel \in AxisSamples}

\* texts: empty, lowercase with a space, with digits, of mixed case with
\* punctuation, of 38 characters, of 39, and with a tab, a character the
\* keymap has no key for, between two letters and before 38 letters
TextSamples ==
    {<<>>,
     <<"h", "i", " ", "t", "h", "e", "r", "e">>,
     <<"a", "b", "c", "1", "2", "3">>,
     <<"H", "e", "l", "l", "o", ",", " ", "W", "o", "r", "l", "d", "!">>,
     <<"a", "-", "b", "=", "c", ";", "d">>,
     <<"a", "\t", "b">>,
     <<"\t", "x", "x", "x", "x", "x", "x", "x", "x", "x", "x", "x", "x", "x", "x", "x", "x", "x", "x", "x", "x", "x", "x", "x", "x", "x", "x", "x", "x", "x", "x", "x", "x", "x", "x", "x", "x", "x", "x">>,
     <<"x", "x", "x", "x", "x", "x", "x", "x", "x", "x", "x", "x", "x", "x", "x", "x", "x", "x", "x", "x", "x", "x", "x", "x", "x", "x", "x", "x", "x", "x", "x", "x", "x", "x", "x", "x", "x", "x">>,
     <<"a", "b", " ", "a", "b", " ", "a", "b", " ", "a", "b", " ", "a", "b", " ", "a", "b", " ", "a", "b", " ", "a", "b", " ", "a", "b", " ", "a", "b", " ", "a", "b", " ", "a", "b", " ", "a", "b", " ">>}

TextInputs == {TextConfiguration_new(text) : text \in TextSamples}

MediaInputs == {MediaConfiguration_new(button) : button \in 1..19}

GamepadInputs == {GamepadConfiguration_new(key) : key \in 1..12}

ConfigInputs ==
    {Unconfigured} \cup KeyboardInputs \cup MouseInputs \cup TextInputs
        \cup MediaInputs \cup GamepadInputs

UpperOf(ch) ==
    IF \E k \in 1..26 : ch = LowerChars[k]
    THEN UpperChars[CHOOSE k \in 1..26 : ch = LowerChars[k]]
    ELSE ch

\* casings of a name: as it is, lowercase, uppercase, and with every other
\* letter in uppercase
Casings(name) ==
    {name, to_lowercase(name),
     [k \in 1..Len(name) |-> UpperOf(to_lowercase_char(name[k]))],
     [k \in 1..Len(name) |->
        IF k % 2 = 1 THEN UpperOf(to_lowercase_char(name[k]))
        ELSE to_lowercase_char(name[k])]}

TableNames == {KEYMAP_TABLE[k][1] : k \in 1..Len(KEYMAP_TABLE)}

\* names no casing of which is in the table
OtherNames ==
    {<<>>, <<"z", "z">>, <<"f", "2", "5">>, <<"e", "n", "t", "e", "r", "r">>,
     <<"E", "n", "t", "e">>, <<"0", "x", "0", "4">>, <<"a", " ">>}

NameInputs == UNION {Casings(name) : name \in TableNames} \cup OtherNames

Input(sort, v) == [sort |-> sort, v |-> v]

Called_fn(fn, input, arg, ret) ==
    [fn |-> fn, input |-> input, arg |-> arg, ret |-> ret]

\* no session: the codecs and the keymap need none
NoSession ==
    /\ driver = "" /\ model = ""
    /\ capabilities = [pedal_count |-> 0, first_pedal_index |-> 0, pedal_names |-> <<>>]
    /\ configurations = <<>> /\ trigger_modes = <<>> /\ modified_pedals = <<>>
    /\ device = [slots |-> <<>>, triggers |-> <<>>, pending |-> <<>>]
    /\ io = <<>>
    /\ result = Outcome("", 0, Unconfigured, Ok(0))

SessionUnchanged ==
    UNCHANGED <<driver, model, capabilities, configurations, trigger_modes,
                modified_pedals, device, io, result, command,
                threads, usb, requested>>

CodecInit ==
    /\ NoSession
    /\ command = NoCommand /\ threads = NoThreads /\ usb = NoUsb
    /\ requested = NoRequests
    /\ \/ \E c \in ConfigInputs : codec_call = [fn |-> "", input |-> Input("config", c)]
       \/ \E name \in NameInputs : codec_call = [fn |-> "", input |-> Input("name", name)]
       \/ \E code \in Byte : codec_call = [fn |-> "", input |-> Input("code", code)]

\* protocol::ikkegol::encode_config
EncodeConfig ==
    /\ codec_call.fn = "" /\ codec_call.input.sort = "config"
    /\ codec_call' = Called_fn("encode_config", codec_call.input, codec_call.input.v,
                         encode_config(codec_call.input.v))
    /\ SessionUnchanged

\* protocol::ikkegol::parse_config, of the packet encode_config returned
ParseConfig ==
    /\ codec_call.fn = "encode_config" /\ codec_call.ret.ok
    /\ codec_call' = Called_fn("parse_config", codec_call.input, codec_call.ret.v,
                         parse_config(codec_call.ret.v))
    /\ SessionUnchanged

\* HID_KEYMAP.encode_key
EncodeKey ==
    /\ codec_call.fn = "" /\ codec_call.input.sort = "name"
    /\ codec_call' = Called_fn("encode_key", codec_call.input, codec_call.input.v,
                         encode_key(codec_call.input.v))
    /\ SessionUnchanged

\* HID_KEYMAP.encode_char, of a name of one character
EncodeChar ==
    /\ codec_call.fn = "" /\ codec_call.input.sort = "name"
    /\ Len(codec_call.input.v) = 1
    /\ codec_call' = Called_fn("encode_char", codec_call.input, codec_call.input.v[1],
                         encode_char(codec_call.input.v[1]))
    /\ SessionUnchanged

\* HID_KEYMAP.decode_key
DecodeKey ==
    /\ codec_call.fn = "" /\ codec_call.input.sort = "code"
    /\ codec_call' = Called_fn("decode_key", codec_call.input, codec_call.input.v,
                         decode_key(codec_call.input.v))
    /\ SessionUnchanged

\* TextConfiguration::encode_for_protocol
EncodeForProtocol ==
    /\ codec_call.fn = "" /\ codec_call.input.sort = "config"
    /\ codec_call.input.v.kind = "Text"
    /\ codec_call' = Called_fn("encode_for_protocol", codec_call.input,
                         codec_call.input.v.text,
                         encode_for_protocol(codec_call.input.v.text))
    /\ SessionUnchanged

CodecNext ==
    \/ EncodeConfig \/ ParseConfig \/ EncodeKey
    \/ EncodeChar \/ DecodeKey \/ EncodeForProtocol

CodecSpec == CodecInit /\ [][CodecNext]_vars

(***************************************************************************)
(* The set command of the command line program (clutchctl-cli,             *)
(* commands/set.rs).  A run of the program discovers the device, which     *)
(* constructs a session of its driver, loads the configuration, resolves   *)
(* the pedal argument, builds the configuration, sets it and saves.  The   *)
(* command lines explored ask for no configuration or for a text.          *)
(***************************************************************************)
\* anyhow!(msg), and the error a .context(msg) leaves
anyhow(msg) == PedalError("anyhow", msg, 0, 0)

DecDigits == <<"0", "1", "2", "3", "4", "5", "6", "7", "8", "9">>

DecDigitValue(ch) == (CHOOSE k \in 1..10 : DecDigits[k] = ch) - 1

RECURSIVE DecValue(_, _)
DecValue(digits, acc) ==
    IF digits = <<>> THEN acc
    ELSE DecValue(Tail(digits), acc * 10 + DecDigitValue(Head(digits)))

\* str::parse::<usize>: decimal digits after an optional '+'; the arguments
\* explored are far below usize::MAX
usize_from_str(s) ==
    Bind(IF s # <<>> /\ s[1] = "+" THEN Tail(s) ELSE s, LAMBDA digits :
        IF digits = <<>> \/ \E i \in 1..Len(digits) : \A k \in 1..10 : DecDigits[k] # digits[i]
        THEN None
        ELSE Some(DecValue(digits, 0)))

\* DeviceCapabilities::get_pedal_name
get_pedal_name(caps, pedal_index) ==
    IF pedal_index < Len(caps.pedal_names)
    THEN Some(caps.pedal_names[pedal_index + 1]) ELSE None

\* DeviceCapabilities::find_pedal_by_name: the position of the first name
\* equal to the argument up to the case of ASCII letters
find_pedal_by_name(caps, name) ==
    Bind({i \in 1..Len(caps.pedal_names) :
             to_lowercase(caps.pedal_names[i]) = to_lowercase(name)},
         LAMBDA hits :
            IF hits = {} THEN None
            ELSE Some((CHOOSE i \in hits : \A j \in hits : i <= j) - 1))

\* the pedal index with a number taken as a 0-based index
parse_pedal_index_zero_based(caps, pedal_str) ==
    Bind(usize_from_str(pedal_str), LAMBDA num :
        IF num.some
        THEN IF num.v >= caps.pedal_count
             THEN Err(anyhow("Invalid pedal index"))
             ELSE Ok(num.v)
        ELSE Bind(find_pedal_by_name(caps, pedal_str), LAMBDA found :
                IF found.some THEN Ok(found.v) ELSE Err(anyhow("Unknown pedal"))))

\* execute, the pedal index: a number is a 1-based index, anything else a name
parse_pedal_index(caps, pedal_str) ==
    Bind(usize_from_str(pedal_str), LAMBDA num :
        IF num.some
        THEN IF num.v = 0 \/ num.v > caps.pedal_count
             THEN Err(anyhow("Invalid pedal index"))
             ELSE Ok(num.v - 1)
        ELSE Bind(find_pedal_by_name(caps, pedal_str), LAMBDA found :
                IF found.some THEN Ok(found.v) ELSE Err(anyhow("Unknown pedal"))))

\* String::len of a text of ASCII characters
str_len(text) == Len(text)

\* the configuration a SetConfig asks for, whatever the length of a text
new_config_any_length(config) ==
    IF config.kind = "None" THEN Ok(Unconfigured)
    ELSE Ok(IF config.invert
            THEN set_trigger(TextConfiguration_new(config.text), "OnRelease")
            ELSE TextConfiguration_new(config.text))

\* execute, the configuration a SetConfig asks for
new_config(config) ==
    IF config.kind = "None" THEN Ok(Unconfigured)
    ELSE IF str_len(config.text) > 38
         THEN Err(anyhow("Text too long (max 38 characters)"))
         ELSE Ok(IF config.invert
                 THEN set_trigger(TextConfiguration_new(config.text), "OnRelease")
                 ELSE TextConfiguration_new(config.text))

\* what a run leaves: the session, the Result, the methods of the session
\* it called and the pedal index it resolved
Ran(self, res, called, pedal_index) ==
    [self |-> self, res |-> res, called |-> called, pedal_index |-> pedal_index]

\* commands::set::execute on the attached device
execute(attached, pedal_str, config, load_fault, save_fault) ==
    Bind(Construct(attached.driver, attached.model, attached.device), LAMBDA found :
    IF ~found.res.ok
    THEN Ran(found.self, Err(anyhow("Device with ID not found")), <<>>, None)
    ELSE
    Bind(load_configuration([found.self EXCEPT !.io = <<>>], load_fault), LAMBDA loaded :
    IF ~loaded.res.ok
    THEN Ran(loaded.self, Err(anyhow("Failed to load device configuration")),
             <<"load_configuration">>, None)
    ELSE
    Bind(parse_pedal_index(loaded.self.capabilities, pedal_str), LAMBDA pedal_index :
    IF ~pedal_index.ok
    THEN Ran(loaded.self, pedal_index, <<"load_configuration">>, None)
    ELSE
    Bind(new_config(config), LAMBDA cfg :
    IF ~cfg.ok
    THEN Ran(loaded.self, cfg, <<"load_configuration">>, Some(pedal_index.v))
    ELSE
    Bind(set_pedal_configuration(loaded.self, pedal_index.v, cfg.v), LAMBDA set :
    IF ~set.res.ok
    THEN Ran(set.self, Err(anyhow("Failed to set pedal configuration")),
             <<"load_configuration", "set_pedal_configuration">>, Some(pedal_index.v))
    ELSE
    Bind(save_configuration([set.self EXCEPT !.io = <<>>], save_fault), LAMBDA saved :
        Ran(saved.self,
            IF saved.res.ok THEN Ok(0)
            ELSE Err(anyhow("Failed to save configuration to device")),
            <<"load_configuration", "set_pedal_configuration", "save_configuration">>,
            Some(pedal_index.v))))))))

(***************************************************************************)
(* The runs explored: the program starts with its command line and the     *)
(* device attached, and runs the command.                                  *)
(***************************************************************************)
\* the pedal arguments: numbers in and out of range, names in several
\* casings, and arguments that are neither
PedalArgs ==
    {<<"0">>, <<"1">>, <<"2">>, <<"3">>, <<"4">>, <<"0", "2">>, <<"+", "1">>,
     <<"-", "1">>, <<>>, <<"l", "e", "f", "t">>, <<"L", "E", "F", "T">>,
     <<"M", "i", "d", "d", "l", "e">>, <<"r", "i", "g", "h", "t">>,
     <<"p", "e", "d", "a", "l">>, <<"P", "e", "d", "a", "l">>,
     <<"l", "e", "f", "t", " ">>, <<"c", "e", "n", "t", "e", "r">>}

\* the SetConfig arguments: none, and texts of 0, 8, 38 and 39 characters
SetConfigArgs ==
    {[kind |-> "None", text |-> <<>>, invert |-> FALSE]}
    \cup [kind : {"Text"},
          text : {text \in TextSamples : Len(text) \in {0, 8, 38, 39}},
          invert : BOOLEAN]

\* the hidapi call that fails in the load and in the save of a run
CommandFaults == {NoFault, [at |-> 1, kind |-> "Hid"], [at |-> 2, kind |-> "Timeout"]}

\* the variables of the session hold the fields of self
Attached(self) ==
    /\ driver = self.driver
    /\ model = self.model
    /\ capabilities = self.capabilities
    /\ configurations = self.configurations
    /\ trigger_modes = self.trigger_modes
    /\ modified_pedals = self.modified_pedals
    /\ device = self.device
    /\ io = self.io

CommandInit ==
    /\ \E s \in Sessions :
        \E image \in (IF s[1] = "Ikkegol" THEN IkkegolImages ELSE PCsensorImages) :
            Attached(NewSession(s[1], s[2], image))
    /\ result = Outcome("", 0, Unconfigured, Ok(0))
    /\ codec_call = NoCall
    /\ threads = NoThreads
    /\ usb = NoUsb
    /\ requested = NoRequests
    /\ \E pedal_str \in PedalArgs, config \in SetConfigArgs :
        \E load_fault \in CommandFaults, save_fault \in CommandFaults :
            command = [name |-> "set", done |-> FALSE, pedal_str |-> pedal_str,
                       config |-> config, load_fault |-> load_fault,
                       save_fault |-> save_fault]

\* the run ends: the session and the device are as execute leaves them
Exit(ran) ==
    /\ Becomes(ran.self)
    /\ command' = [name |-> "set", done |-> TRUE, pedal_str |-> command.pedal_str,
                   config |-> command.config, attached |-> device,
                   res |-> ran.res, called |-> ran.called,
                   pedal_index |-> ran.pedal_index]
    /\ UNCHANGED <<result, threads, usb, requested>>

\* clutchctl set <device> <pedal> <config>
SetCommand ==
    /\ command.name = "set" /\ ~command.done
    /\ Exit(execute(Self, command.pedal_str, command.config,
                    command.load_fault, command.save_fault))

CommandNext == SetCommand

CommandSpec == CommandInit /\ [][CommandNext]_vars

(***************************************************************************)
(* The locks of a session.  Each driver keeps the handle of the device,    *)
(* the cached configurations, the trigger modes and the dirty flags in a   *)
(* Mutex of their own.  A method is the sequence of its steps that take a  *)
(* lock, drop a guard, call hidapi, may return an error, or work on the    *)
(* dirty flags; the threads take the steps of their methods in any order.  *)
(* A guard is dropped where the code drops it or at the end of its block,  *)
(* and every guard held is dropped when the method returns an error.       *)
(***************************************************************************)
Threads == {1, 2}

\* the steps
acquire(mutex) == [do |-> "lock", on |-> mutex, loop |-> FALSE]
release(mutex) == [do |-> "drop", on |-> mutex, loop |-> FALSE]
\* a call of hid_write or hid_read
hid(call) == [do |-> call, on |-> "device", loop |-> FALSE]
\* the hid_write of the command that opens the exchange of a pedal, or of
\* the trigger modes, with the device
opens(call) == [do |-> call, on |-> "device", loop |-> FALSE, first |-> TRUE]
\* a call of hid_write or hid_read in a loop that may have ended before it
hid_more(call) == [do |-> call, on |-> "device", loop |-> TRUE]
\* a computation that may fail, after which the method returns the error
fallible(what) == [do |-> "try", on |-> what, loop |-> FALSE]
\* a step on the dirty flags: "mark" one, "fill" with false, "collect" the
\* indices of those set
flags(what, pedal_index) == [do |-> what, on |-> pedal_index, loop |-> FALSE]

Repeat(step, n) == [k \in 1..n |-> step]

RECURSIVE Concat(_)
Concat(seqs) == IF seqs = <<>> THEN <<>> ELSE Head(seqs) \o Concat(Tail(seqs))

\* the steps of body(i) for every i of indices, in order
ForEach(indices, body(_)) == Concat([k \in 1..Len(indices) |-> body(indices[k])])

UpTo(n) == [k \in 1..n |-> k - 1]

\* read_pedal_config taking the handle for the command and, again, for the
\* chunks of the response
Ikkegol_read_pedal_config_steps_two_holds(pedal_index) ==
    <<acquire("device"), opens("write"), release("device"),
      acquire("device"), hid("read")>>
        \o Repeat(hid_more("read"), 4)
        \o <<release("device"), fallible("parse_config"),
             acquire("configurations"), release("configurations")>>

\* read_pedal_config dropping the handle at the end of the method
Ikkegol_read_pedal_config_steps_late_drop(pedal_index) ==
    <<acquire("device"), opens("write"), hid("read")>>
        \o Repeat(hid_more("read"), 4)
        \o <<fallible("parse_config"),
             acquire("configurations"), release("configurations"),
             release("device")>>

\* IkkegolDevice::read_pedal_config: the handle from the command to the
\* last chunk, then the configurations
Ikkegol_read_pedal_config_steps(pedal_index) ==
    <<acquire("device"), opens("write"), hid("read")>>
        \o Repeat(hid_more("read"), 4)
        \o <<release("device"), fallible("parse_config"),
             acquire("configurations"), release("configurations")>>

\* IkkegolDevice::read_trigger_modes
Ikkegol_read_trigger_modes_steps ==
    <<acquire("device"), opens("write"), hid("read"), release("device"),
      acquire("trigger_modes"), release("trigger_modes")>>

\* write_pedal_config reading the trigger mode with the configuration
Ikkegol_write_pedal_config_steps_with_trigger(pedal_index) ==
    <<acquire("configurations"), acquire("trigger_modes"),
      release("trigger_modes"), release("configurations"),
      acquire("device"), opens("write"), fallible("encode_config"), hid("write")>>
        \o Repeat(hid("write"), 5)
        \o <<release("device")>>

\* IkkegolDevice::write_pedal_config: the configurations for the clone,
\* then the handle to the end of the method
Ikkegol_write_pedal_config_steps(pedal_index) ==
    <<acquire("configurations"), release("configurations"),
      acquire("device"), opens("write"), fallible("encode_config"), hid("write")>>
        \o Repeat(hid("write"), 5)
        \o <<release("device")>>

\* IkkegolDevice::load_configuration
Ikkegol_load_configuration_steps(pedal_count) ==
    ForEach(UpTo(pedal_count), Ikkegol_read_pedal_config_steps)
        \o Ikkegol_read_trigger_modes_steps
        \o <<acquire("trigger_modes"), acquire("configurations"),
             release("configurations"), release("trigger_modes"),
             acquire("modified_pedals"), flags("fill", 0), release("modified_pedals")>>

\* IkkegolDevice::save_configuration, to the list of modified pedals
Ikkegol_save_configuration_steps ==
    <<acquire("modified_pedals"), flags("collect", 0)>>

\* IkkegolDevice::save_configuration, from the list of modified pedals
Ikkegol_save_modified_steps(modified_indices) ==
    <<release("modified_pedals")>>
        \o ForEach(modified_indices, Ikkegol_write_pedal_config_steps)
        \o <<acquire("modified_pedals"), flags("fill", 0), release("modified_pedals")>>

\* PCsensorDevice::read_pedal_config: the handle for the query, the response
\* and the further reports of a text, then the configurations, then the
\* trigger modes
PCsensor_read_pedal_config_steps(pedal_index) ==
    <<acquire("device"), opens("write"), hid("read")>>
        \o Repeat(hid_more("read"), 4)
        \o <<release("device"),
             acquire("configurations"), release("configurations"),
             acquire("trigger_modes"), release("trigger_modes")>>

\* write_pedal_config keeping the guards of the copies to the end
PCsensor_write_pedal_config_steps_keeps_guards(pedal_index) ==
    <<acquire("configurations"), acquire("trigger_modes"),
      acquire("device"), opens("write"), hid("write"), hid("write")>>
        \o Repeat(hid_more("write"), 4)
        \o <<release("device"), release("trigger_modes"), release("configurations")>>

\* PCsensorDevice::write_pedal_config: the configurations and the trigger
\* modes together for the copies, then the handle to the end of the method
PCsensor_write_pedal_config_steps(pedal_index) ==
    <<acquire("configurations"), acquire("trigger_modes"),
      release("trigger_modes"), release("configurations"),
      acquire("device"), opens("write"), hid("write"), hid("write")>>
        \o Repeat(hid_more("write"), 4)
        \o <<release("device")>>

\* PCsensorDevice::save_configuration, a pedal the device does not have
PCsensor_write_empty_steps(pedal_index) ==
    <<acquire("device"), opens("write"), hid("write"), release("device")>>

PCsensor_load_configuration_steps(pedal_count) ==
    ForEach(UpTo(pedal_count), PCsensor_read_pedal_config_steps)

PCsensor_save_configuration_steps(pedal_count) ==
    ForEach(UpTo(Min(pedal_count, 3)), PCsensor_write_pedal_config_steps)
        \o ForEach([k \in 1..(3 - Min(pedal_count, 3)) |-> pedal_count + k - 1],
                   PCsensor_write_empty_steps)

\* get_pedal_configuration, set_pedal_configuration and has_modifications,
\* the same in both drivers
get_pedal_configuration_steps(pedal_count, pedal_index) ==
    IF pedal_index >= pedal_count THEN <<>>
    ELSE <<acquire("configurations"), release("configurations")>>

set_pedal_configuration_steps(pedal_count, pedal_index) ==
    IF pedal_index >= pedal_count THEN <<>>
    ELSE <<acquire("configurations"), release("configurations"),
           acquire("modified_pedals"), flags("mark", pedal_index),
           release("modified_pedals")>>

has_modifications_steps ==
    <<acquire("modified_pedals"), release("modified_pedals")>>

Methods ==
    {"load_configuration", "save_configuration", "get_pedal_configuration",
     "set_pedal_configuration", "has_modifications"}

\* the steps of a method of the session's driver
Steps(method, pedal_index) ==
    CASE method = "load_configuration" ->
            IF driver = "Ikkegol"
            THEN Ikkegol_load_configuration_steps(capabilities.pedal_count)
            ELSE PCsensor_load_configuration_steps(capabilities.pedal_count)
      [] method = "save_configuration" ->
            IF driver = "Ikkegol" THEN Ikkegol_save_configuration_steps
            ELSE PCsensor_save_configuration_steps(capabilities.pedal_count)
      [] method = "get_pedal_configuration" ->
            get_pedal_configuration_steps(capabilities.pedal_count, pedal_index)
      [] method = "set_pedal_configuration" ->
            set_pedal_configuration_steps(capabilities.pedal_count, pedal_index)
      [] OTHER -> has_modifications_steps

\* a thread: the method it is in, the steps still to take and the locks it
\* holds, in the order it took them
Idle == [method |-> "", steps |-> <<>>, held |-> <<>>]

Holds(t, mutex) == \E k \in 1..Len(threads[t].held) : threads[t].held[k] = mutex

\* the next step of a thread is a step of one of the sorts
Next_step(t, sorts) ==
    /\ threads[t].steps # <<>>
    /\ Head(threads[t].steps).do \in sorts

Without(held, mutex) == SelectSeq(held, LAMBDA m : m # mutex)

\* the steps after the loop the first of them is in
RECURSIVE AfterLoop(_)
AfterLoop(steps) ==
    IF steps # <<>> /\ Head(steps).loop THEN AfterLoop(Tail(steps)) ELSE steps

Goes(t, steps, held) ==
    threads' = [threads EXCEPT ![t] = [method |-> threads[t].method,
                                       steps |-> steps, held |-> held]]

OnlyThreads ==
    UNCHANGED <<driver, model, capabilities, configurations, trigger_modes,
                modified_pedals, device, io, result, codec_call, command, usb,
                requested>>

(***************************************************************************)
(* The steps of the threads.                                               *)
(***************************************************************************)
\* a thread calls a method
Call(t, method, pedal_index) ==
    /\ threads[t] = Idle
    /\ threads' = [threads EXCEPT ![t] = [method |-> method,
                                          steps |-> Steps(method, pedal_index),
                                          held |-> <<>>]]
    /\ OnlyThreads

\* Mutex::lock: the thread goes on when no thread holds the lock
Acquire(t) ==
    /\ Next_step(t, {"lock"})
    /\ \A u \in Threads : ~Holds(u, Head(threads[t].steps).on)
    /\ Goes(t, Tail(threads[t].steps), Append(threads[t].held, Head(threads[t].steps).on))
    /\ OnlyThreads

\* a guard is dropped
Release(t) ==
    /\ Next_step(t, {"drop"})
    /\ Goes(t, Tail(threads[t].steps), Without(threads[t].held, Head(threads[t].steps).on))
    /\ OnlyThreads

\* hid_write or hid_read returns Ok
DeviceIo(t) ==
    /\ Next_step(t, {"write", "read"})
    /\ Goes(t, Tail(threads[t].steps), threads[t].held)
    /\ OnlyThreads

\* the loop of reads or writes has ended
LeaveLoop(t) ==
    /\ Next_step(t, {"write", "read"})
    /\ Head(threads[t].steps).loop
    /\ Goes(t, AfterLoop(threads[t].steps), threads[t].held)
    /\ OnlyThreads

\* parse_config or encode_config returns Ok
Compute(t) ==
    /\ Next_step(t, {"try"})
    /\ Goes(t, Tail(threads[t].steps), threads[t].held)
    /\ OnlyThreads

\* a call returns an error and the method returns it: its guards are dropped
Fail(t) ==
    /\ Next_step(t, {"write", "read", "try"})
    /\ Goes(t, <<>>, <<>>)
    /\ OnlyThreads

\* the indices of the dirty flags that are set, in ascending order
ModifiedIndices ==
    SelectSeq(UpTo(capabilities.pedal_count), LAMBDA i : modified_pedals[i + 1])

\* a step on the dirty flags
Flags(t) ==
    /\ Next_step(t, {"mark", "fill", "collect"})
    /\ modified_pedals' =
          CASE Head(threads[t].steps).do = "mark" ->
                  [modified_pedals EXCEPT ![Head(threads[t].steps).on + 1] = TRUE]
            [] Head(threads[t].steps).do = "fill" ->
                  [k \in 1..Len(modified_pedals) |-> FALSE]
            [] OTHER -> modified_pedals
    /\ Goes(t, IF Head(threads[t].steps).do = "collect"
               THEN Ikkegol_save_modified_steps(ModifiedIndices)
               ELSE Tail(threads[t].steps),
            threads[t].held)
    /\ UNCHANGED <<driver, model, capabilities, configurations, trigger_modes,
                   device, io, result, codec_call, command, usb, requested>>

\* the method returns
Returns(t) ==
    /\ threads[t].method # "" /\ threads[t].steps = <<>>
    /\ threads' = [threads EXCEPT ![t] = Idle]
    /\ OnlyThreads

LockInit ==
    /\ \E s \in Sessions :
          Attached(NewSession(s[1], s[2],
                              IF s[1] = "Ikkegol"
                              THEN CHOOSE image \in IkkegolImages : TRUE
                              ELSE CHOOSE image \in PCsensorImages : TRUE))
    /\ result = Outcome("", 0, Unconfigured, Ok(0))
    /\ codec_call = NoCall
    /\ command = NoCommand
    /\ usb = NoUsb
    /\ requested = NoRequests
    /\ threads = [t \in Threads |-> Idle]

LockNext ==
    \E t \in Threads :
        \/ \E method \in Methods, pedal_index \in 0..MaxPedalIndex :
                Call(t, method, pedal_index)
        \/ Acquire(t) \/ Release(t)
        \/ DeviceIo(t) \/ LeaveLoop(t) \/ Compute(t) \/ Fail(t)
        \/ Flags(t)
        \/ Returns(t)

LockSpec == LockInit /\ [][LockNext]_vars

(***************************************************************************)
(* UsbInterfaceLock (usb/interface_lock.rs): a value that claims an        *)
(* interface of a raw USB handle when it is made and releases it when it   *)
(* is dropped.  The code that uses it makes the lock in a scope, works on  *)
(* the handle and leaves the scope, at its end, with `?` on an error, with *)
(* a return or in a panic that unwinds.                                    *)
(***************************************************************************)
\* the largest interface number claimed
MaxInterface == 2

\* the largest number of rusb calls of a behaviour
MaxCalls == 5

\* a call of rusb on the handle
UsbCall(call, interface, ok) == [call |-> call, interface |-> interface, ok |-> ok]

\* a constructor that hands out a lock whether the claim succeeds or not
UsbInterfaceLock_new_unchecked(handle, interface, claimed) ==
    [handle |-> [calls |-> Append(handle.calls, UsbCall("claim_interface", interface, claimed)),
                 claimed |-> IF claimed THEN handle.claimed \cup {interface}
                             ELSE handle.claimed],
     res |-> Ok([interface |-> interface])]

\* UsbInterfaceLock::new: claim_interface, and the lock when that is Ok;
\* the outcome of set_auto_detach_kernel_driver is ignored
UsbInterfaceLock_new(handle, interface, claimed) ==
    [handle |-> [calls |-> Append(handle.calls, UsbCall("claim_interface", interface, claimed)),
                 claimed |-> IF claimed THEN handle.claimed \cup {interface}
                             ELSE handle.claimed],
     res |-> IF claimed THEN Ok([interface |-> interface])
             ELSE Err(PedalError("Usb", "", 0, 0))]

\* a drop that leaves the interface claimed
UsbInterfaceLock_drop_nothing(handle, lock, released) == handle

\* Drop for UsbInterfaceLock: release_interface, its outcome ignored
UsbInterfaceLock_drop(handle, lock, released) ==
    [calls |-> Append(handle.calls, UsbCall("release_interface", lock.interface, released)),
     claimed |-> IF released THEN handle.claimed \ {lock.interface} ELSE handle.claimed]

\* the ways out of the scope of a lock
ExitPaths == {"end", "error", "return", "unwind"}

UsbHandle == [calls |-> usb.calls, claimed |-> usb.claimed]

UsbOnly ==
    UNCHANGED <<driver, model, capabilities, configurations, trigger_modes,
                modified_pedals, device, io, result, codec_call, command, threads,
                requested>>

\* the handle is open, nothing is claimed, and control is in the caller
UsbInit ==
    /\ NoSession
    /\ codec_call = NoCall /\ command = NoCommand /\ threads = NoThreads
    /\ requested = NoRequests
    /\ usb = [pc |-> "caller", calls |-> <<>>, claimed |-> {}, lock |-> None,
              exit |-> ""]

\* the caller makes a lock: control enters the scope of the lock when new
\* returns Ok, and stays in the caller with the error otherwise
Claim(made) ==
    usb' = [pc |-> IF made.res.ok THEN "scope" ELSE "caller",
            calls |-> made.handle.calls, claimed |-> made.handle.claimed,
            lock |-> IF made.res.ok THEN Some(made.res.v) ELSE None,
            exit |-> IF made.res.ok THEN "" ELSE "error"]

NewLock(interface, claimed) ==
    /\ usb.pc = "caller"
    /\ Len(usb.calls) < MaxCalls
    /\ Claim(UsbInterfaceLock_new(UsbHandle, interface, claimed))
    /\ UsbOnly

\* UsbInterfaceLock::handle: the code in the scope works on the handle
UseHandle(ok) ==
    /\ usb.pc = "scope"
    /\ Len(usb.calls) < MaxCalls
    /\ usb' = [usb EXCEPT !.calls = Append(@, UsbCall("transfer", usb.lock.v.interface, ok))]
    /\ UsbOnly

\* control leaves the scope: the lock is dropped, then the caller goes on
Dropped(path, handle) ==
    usb' = [pc |-> "caller", calls |-> handle.calls, claimed |-> handle.claimed,
            lock |-> None, exit |-> path]

LeaveScope(path, released) ==
    /\ usb.pc = "scope"
    /\ Dropped(path, UsbInterfaceLock_drop(UsbHandle, usb.lock.v, released))
    /\ UsbOnly

UsbNext ==
    \/ \E interface \in 0..MaxInterface, claimed \in BOOLEAN : NewLock(interface, claimed)
    \/ \E ok \in BOOLEAN : UseHandle(ok)
    \/ \E path \in ExitPaths, released \in BOOLEAN : LeaveScope(path, released)

UsbSpec == UsbInit /\ [][UsbNext]_vars
(***************************************************************************)
(* Sessions on a device that stores what is written to it: configurations  *)
(* are set, saved, loaded again and read from the cache, in this order.    *)
(***************************************************************************)
\* the device of an image, storing
Storing(image) ==
    [slots |-> image.slots, triggers |-> image.triggers, pending |-> <<>>,
     cursor |-> 0]

\* a text of n lowercase letters
LowerText(n) == TextConfiguration_new([k \in 1..n |-> LowerChars[((k - 1) % 26) + 1]])
Text38 == LowerText(38)

\* the configurations set: one of every variant, on press and on release,
\* and texts of the lengths at which the number of reports changes
StoreConfigs ==
    {KeyboardB,
     KeyboardConfiguration_with_modifiers("OneShot", <<<<"a">>, <<"z">>>>, 0),
     set_trigger(KeyboardB, "OnRelease"),
     MouseConfiguration_buttons({"Left"}),
     MouseConfiguration_axis(-1, 127, 0),
     TextConfiguration_new(<<"o", "n", "e", " ", "t", "w", "o", " ", "3">>),
     LowerText(0), LowerText(6), LowerText(7), LowerText(14), LowerText(15),
     Text38,
     TextHi,
     MediaConfiguration_new(4),
     GamepadConfiguration_new(12)}

\* devices of the 8-byte-report family holding texts whose first report
\* declares the lengths 0, 255 and 17, and 1, 8 and 16
TextImages ==
    {[slots |-> <<<<<<0, 4, 4, 5, 6, 7, 8, 9>>>>,
                  <<<<255, 4, 4, 5, 6, 7, 8, 9>>,
                    <<10, 11, 12, 13, 14, 15, 16, 17>>,
                    <<18, 19, 20, 21, 22, 23, 24, 25>>,
                    <<26, 27, 28, 29, 4, 5, 6, 7>>,
                    <<8, 9, 10, 11, 12, 13, 14, 15>>,
                    <<16, 17, 18, 19, 20, 21, 22, 23>>>>,
                  <<<<17, 4, 4, 5, 6, 7, 8, 9>>,
                    <<10, 11, 12, 13, 14, 15, 16, 17>>,
                    <<18, 19, 20, 21, 22, 23, 24, 25>>>>>>,
      triggers |-> <<>>, pending |-> <<>>],
     [slots |-> <<<<<<1, 4, 4, 5, 6, 7, 8, 9>>>>,
                  <<<<8, 4, 4, 5, 6, 7, 8, 9>>,
                    <<10, 11, 12, 13, 14, 15, 16, 17>>>>,
                  <<<<16, 4, 4, 5, 6, 7, 8, 9>>,
                    <<10, 11, 12, 13, 14, 15, 16, 17>>>>>>,
      triggers |-> <<>>, pending |-> <<>>]}

StoreImages(d) ==
    IF d = "Ikkegol" THEN IkkegolImages ELSE PCsensorImages \cup TextImages

StoreInit ==
    \E s \in Sessions :
        \E image \in StoreImages(s[1]) :
            \E new \in {Construct(s[1], s[2], Storing(image))} :
                /\ new.res.ok
                /\ driver = new.self.driver
                /\ model = new.self.model
                /\ capabilities = new.self.capabilities
                /\ configurations = new.self.configurations
                /\ trigger_modes = new.self.trigger_modes
                /\ modified_pedals = new.self.modified_pedals
                /\ device = [new.self.device EXCEPT !.pending = <<>>]
                /\ io = new.self.io
                /\ result = Outcome("new", 0, Unconfigured, new.res)
                /\ codec_call = NoCall
                /\ command = NoCommand
                /\ threads = NoThreads
                /\ usb = NoUsb
                /\ requested = [i \in 1..new.self.capabilities.pedal_count |-> None]

\* set_pedal_configuration on the new session
StoreSet(pedal_index, config) ==
    /\ result.op = "new"
    /\ \E r \in {set_pedal_configuration(Self, pedal_index, config)} :
        /\ Ends("set", pedal_index, config, r)
        /\ requested' = IF r.res.ok
                        THEN [requested EXCEPT ![pedal_index + 1] = Some(config)]
                        ELSE requested

\* save_configuration, once, with every hidapi call succeeding
StoreSave ==
    /\ result.op \in {"new", "set"}
    /\ SaveConfiguration(NoFault)

\* load_configuration of the new session, or after the save, with any fault
StoreLoad(fault) ==
    /\ result.op \in {"new", "save", "load"}
    /\ result.op = "save" => result.res.ok
    /\ LoadConfiguration(fault)

\* get_pedal_configuration after the load that succeeded
StoreGet(pedal_index) ==
    /\ result.op \in {"load", "get"}
    /\ result.res.ok
    /\ GetPedalConfiguration(pedal_index)

StoreNext ==
    \/ \E pedal_index \in 0..MaxPedalIndex, config \in StoreConfigs :
            StoreSet(pedal_index, config)
    \/ StoreSave
    \/ \E fault \in Faults : StoreLoad(fault)
    \/ \E pedal_index \in 0..MaxPedalIndex : StoreGet(pedal_index)

StoreSpec == StoreInit /\ [][StoreNext]_vars


(***************************************************************************)
(* What a step did, read off the state it leaves.                          *)
(***************************************************************************)
\* the step is a call of the operation op
Called(op) == result'.op = op

\* the pedals of the write events of a log, in the order of the events
WrittenPedals(log) ==
    LET IsWrite(e) == e.call = "write"
        writes == SelectSeq(log, IsWrite)
    IN  [k \in 1..Len(writes) |-> writes[k].pedal]

\* the write events a log holds for a pedal
PedalWrites(log, pedal) ==
    LET IsWriteOf(e) == e.call = "write" /\ e.pedal = pedal
    IN  SelectSeq(log, IsWriteOf)

\* the write of a pedal is complete in a log: every report that a save
\* without a failure sends for the pedal is in the log, none of them failed
WriteComplete(log, whole, pedal) ==
    /\ PedalWrites(log, pedal) = PedalWrites(whole, pedal)
    /\ PedalWrites(log, pedal) # <<>>

\* the log of the save that meets no failure, from the current state
WholeSave == save_configuration(Self, NoFault).self.io

\* the pedal index a PedalError carries, if any
ErrorPedal(err) == IF err.kind = "InvalidPedalIndex" THEN Some(err.a) ELSE None

Last(log) == log[Len(log)]

(***************************************************************************)
(* Properties of the sessions.                                             *)
(***************************************************************************)
\* C1: in both drivers and in every state, set_pedal_configuration with an
\* index >= pedal_count returns InvalidPedalIndex, leaves the cached
\* configurations, trigger modes and modification flags as they were, and
\* makes no device call.
C1_SetOutOfRangeRejected ==
    [][(Called("set") /\ result'.pedal_index >= capabilities.pedal_count) =>
            /\ result'.res = Err(InvalidPedalIndex(result'.pedal_index,
                                                   capabilities.pedal_count))
            /\ UNCHANGED <<configurations, trigger_modes, modified_pedals>>
            /\ io' = <<>>]_vars

\* C1, the case: an out-of-range set was rejected on a session that has
\* loaded configurations and a pending modification
C1_Witness ==
    /\ result.op = "set"
    /\ result.pedal_index >= capabilities.pedal_count
    /\ result.res.err.kind = "InvalidPedalIndex"
    /\ has_modifications(Self)
    /\ \E i \in 1..capabilities.pedal_count : configurations[i] # Unconfigured

\* C2: in both drivers, after a save_configuration that returned Ok,
\* has_modifications() is false.
C2_SaveClearsModifications ==
    (result.op = "save" /\ result.res.ok) => ~has_modifications(Self)

\* C3: in both drivers, after a load_configuration that returned Ok,
\* has_modifications() is false.
C3_LoadClearsModifications ==
    (result.op = "load" /\ result.res.ok) => ~has_modifications(Self)

\* C4: a successful set_pedal_configuration(i, c) makes c the cached
\* configuration of slot i, sets the flag of slot i, so has_modifications()
\* is true, leaves the configuration and flag of every other slot as they
\* were, and makes no device call.
C4_SetReplacesOneSlot ==
    [][(Called("set") /\ result'.res.ok) =>
            LET i == result'.pedal_index + 1
            IN  /\ get_pedal_configuration(Self', result'.pedal_index) = Ok(result'.config)
                /\ modified_pedals'[i]
                /\ has_modifications(Self')
                /\ \A j \in 1..capabilities.pedal_count :
                        j # i => /\ configurations'[j] = configurations[j]
                                 /\ modified_pedals'[j] = modified_pedals[j]
                /\ Len(configurations') = Len(configurations)
                /\ Len(modified_pedals') = Len(modified_pedals)
                /\ io' = <<>>]_vars

\* C4, the case: a set succeeded on a 3-pedal session where another slot
\* holds a loaded configuration and is not modified
C4_Witness ==
    /\ result.op = "set" /\ result.res.ok
    /\ configurations[result.pedal_index + 1] = result.config
    /\ \E j \in 1..capabilities.pedal_count :
            /\ j # result.pedal_index + 1
            /\ ~modified_pedals[j]
            /\ configurations[j] \notin {Unconfigured, result.config}

(***************************************************************************)
(* Properties of UsbInterfaceLock.                                         *)
(***************************************************************************)
\* the calls that claim or release an interface, in order
ClaimsAndReleases ==
    SelectSeq(usb.calls, LAMBDA c : c.call \in {"claim_interface", "release_interface"})

\* C30: every successful claim of an interface is followed by exactly one
\* release of that interface, issued before control is back in the caller,
\* whichever way the scope is left; a failed claim gives no lock and is
\* followed by no release.
C30_ClaimReleased ==
    usb.pc # "" =>
        /\ usb.lock.some <=> usb.pc = "scope"
        /\ \A k \in 1..Len(ClaimsAndReleases) :
              /\ (/\ ClaimsAndReleases[k].call = "claim_interface"
                  /\ ClaimsAndReleases[k].ok) =>
                    IF k = Len(ClaimsAndReleases)
                    THEN /\ usb.pc = "scope"
                         /\ usb.lock = Some([interface |-> ClaimsAndReleases[k].interface])
                    ELSE /\ ClaimsAndReleases[k + 1].call = "release_interface"
                         /\ ClaimsAndReleases[k + 1].interface = ClaimsAndReleases[k].interface
              /\ ClaimsAndReleases[k].call = "release_interface" =>
                    /\ k > 1
                    /\ ClaimsAndReleases[k - 1].call = "claim_interface"
                    /\ ClaimsAndReleases[k - 1].ok
              /\ (k = Len(ClaimsAndReleases) /\ ~ClaimsAndReleases[k].call = "claim_interface")
                    => usb.pc = "caller"
        /\ (usb.pc = "caller" /\ ClaimsAndReleases # <<>>) =>
              \/ Last(ClaimsAndReleases).call = "release_interface"
              \/ ~Last(ClaimsAndReleases).ok

\* a scope left on an error after a transfer, its interface released, and a
\* claim that failed after it
C30_Witness ==
    /\ usb.pc = "caller"
    /\ usb.lock = None
    /\ Len(usb.calls) = 4
    /\ usb.calls[1] = UsbCall("claim_interface", 1, TRUE)
    /\ usb.calls[2] = UsbCall("transfer", 1, FALSE)
    /\ usb.calls[3] = UsbCall("release_interface", 1, TRUE)
    /\ usb.calls[4] = UsbCall("claim_interface", 2, FALSE)
    /\ usb.claimed = {}

\* a sequence of pedal indices never steps down
Ascending(pedals) ==
    \A k \in 1..Len(pedals) - 1 : pedals[k] <= pedals[k + 1]

\* the pedals a log has write events for
WrittenSet(log) == {WrittenPedals(log)[k] : k \in 1..Len(WrittenPedals(log))}

\* the slots whose modification flag is set
Dirty == {i \in 0..Len(modified_pedals) - 1 : modified_pedals[i + 1]}

C6_SaveInterruptedAtPedal1 ==
    [][(/\ Called("save")
        /\ {0, 1} \subseteq Dirty
        /\ WriteComplete(io', WholeSave, 0)
        /\ io' # <<>>
        /\ Last(io').call = "write" /\ Last(io').pedal = 1 /\ Last(io').res # "ok") =>
            /\ ~result'.res.ok
            /\ ErrorPedal(result'.res.err) = Some(1)
            /\ ~modified_pedals'[1]
            /\ modified_pedals'[2]]_vars

\* C7: after a save_configuration that fails part-way every pedal that was
\* modified and whose write did not complete still has its flag set, and
\* the next save_configuration, when it meets no failure, writes each of
\* those pedals and leaves has_modifications() false.
C7_ResaveAfterFailure ==
    [][/\ (Called("save") /\ ~result'.res.ok) =>
                \A p \in Dirty :
                    ~WriteComplete(io', WholeSave, p) => modified_pedals'[p + 1]
       /\ (result.op = "save" /\ ~result.res.ok /\ Called("save") /\ result'.res.ok) =>
                /\ \A p \in Dirty : WriteComplete(io', WholeSave, p)
                /\ ~has_modifications(Self')]_vars

\* C8: when a device write fails during save_configuration, save returns
\* the error of that write at once: the calls it made are the calls of the
\* save without failure up to the failing one, so nothing is sent after the
\* failing write, for a later pedal or to roll a written pedal back, and
\* the cached configurations are as before the save.
C8_SaveStopsAtFirstError ==
    [][(Called("save") /\ ~result'.res.ok) =>
            LET n == Len(io')
                whole == WholeSave
            IN  /\ n >= 1 /\ n <= Len(whole)
                /\ SubSeq(io', 1, n - 1) = SubSeq(whole, 1, n - 1)
                /\ Last(io').res # "ok"
                /\ Last(io') = [whole[n] EXCEPT !.res = Last(io').res]
                /\ result'.res = Err(HidFailure(Last(io').res))
                /\ configurations' = configurations]_vars

\* C8, the case: a save failed in the write of pedal 1 after pedal 0 had
\* been written, with pedal 2 still to write
C8_Witness ==
    /\ result.op = "save" /\ ~result.res.ok
    /\ io # <<>>
    /\ Last(io).pedal = 1 /\ Last(io).res # "ok"
    /\ Len(PedalWrites(io, 0)) >= 3
    /\ capabilities.pedal_count = 3
    /\ modified_pedals[3] \/ driver = "PCsensor"

\* the type bytes of the wire packet layout
KnownTypeBytes == {0, 1, 129, 2, 4, 6, 134, 7, 8}

\* a log holds the first report of an answer to a read-config command, and
\* its type byte is none of the known ones
UnknownTypeRead(log) ==
    \E k \in 2..Len(log) :
        /\ log[k - 1].part = "read_config"
        /\ log[k].call = "read" /\ log[k].res = "ok"
        /\ Len(log[k].data) >= 2
        /\ log[k].data[2] \notin KnownTypeBytes

\* C9: a load_configuration that reads, without any I/O failure, a
\* response whose type byte is none of 0x00, 0x01, 0x81, 0x02, 0x04, 0x06,
\* 0x86, 0x07, 0x08 returns a protocol error, in both drivers.
C9_UnknownTypeIsProtocolError ==
    (/\ result.op = "load"
     /\ UnknownTypeRead(io)
     /\ \A k \in 1..Len(io) : io[k].res = "ok") =>
        /\ ~result.res.ok
        /\ result.res.err.kind = "Protocol"

\* the parts of a log that belong to the read of one pedal
ReadParts == {"read_config", "config", "text"}

\* the configuration read_pedal_config caches for a pedal when no call fails
ValueRead(self, pedal_index) ==
    LET r == IF self.driver = "Ikkegol"
             THEN Ikkegol_read_pedal_config(self, NoFault, pedal_index)
             ELSE PCsensor_read_pedal_config(self, NoFault, pedal_index)
    IN  r.self.configurations[pedal_index + 1]

\* C10: when load_configuration fails while reading pedal k, on a failed
\* call or on a protocol error, it returns that error, the cached
\* configurations of the pedals below k are the values read from the
\* device, those of pedal k and above are as before, and no modification
\* flag has changed.
C10_LoadFailsAtPedal ==
    [][(/\ Called("load") /\ ~result'.res.ok
        /\ io' # <<>> /\ Last(io').part \in ReadParts) =>
            LET k == Last(io').pedal
            IN  /\ result'.res.err.kind \in {"Protocol", "Timeout", "Hid"}
                /\ Last(io').res = "Hid" => result'.res = Err(HidFailure("Hid"))
                /\ Len(configurations') = Len(configurations)
                /\ \A i \in 0..capabilities.pedal_count - 1 :
                        configurations'[i + 1] =
                            IF i < k THEN ValueRead(Self, i) ELSE configurations[i + 1]
                /\ modified_pedals' = modified_pedals]_vars

\* C10, the case: a load failed in the read of a pedal after the first,
\* on a session with a modification pending, and left in the first slot a
\* value other than the one it held
C10_Witness ==
    /\ result.op = "load" /\ ~result.res.ok
    /\ io # <<>> /\ Last(io).part \in ReadParts
    /\ Last(io).pedal >= 1
    /\ has_modifications(Self)
    /\ configurations[1] = ValueRead(Self, 0)
    /\ configurations[1] # TextHi
    /\ modified_pedals[1]

(***************************************************************************)
(* Reads that return no bytes.                                             *)
(***************************************************************************)
\* event k of a log is a read, in the read of a pedal, that returned no
\* bytes
NoBytesAt(log, k) ==
    /\ log[k].call = "read" /\ log[k].part \in {"config", "text"}
    /\ log[k].res = "ok" /\ log[k].data = <<>>

\* some bytes of the response were read before event k: the event before
\* is a read of the same response, not the command that asks for it
Accumulated(log, k) == k > 1 /\ log[k - 1].call = "read"

\* C11: in a load_configuration, a read of a pedal's response that returns
\* no bytes before any byte of the response was read ends the load with a
\* Timeout error; one that returns no bytes after a part of the response
\* was read does not: the load does not end there with a Timeout error.
C11_NoBytesRead ==
    [][Called("load") =>
        \A k \in 1..Len(io') :
            NoBytesAt(io', k) =>
                IF Accumulated(io', k)
                THEN ~(k = Len(io') /\ result'.res = Err(Timeout))
                ELSE k = Len(io') /\ result'.res = Err(Timeout)]_vars

(***************************************************************************)
(* Sessions that have loaded nothing.                                      *)
(***************************************************************************)
\* the session is as its constructor left it and the constructor read
\* nothing from the device: no load_configuration has run on it
NeverLoaded == result.op = "new" /\ io = <<>>

\* C12: on a session on which load_configuration has never succeeded,
\* get_pedal_configuration and set_pedal_configuration with an index
\* below pedal_count do not succeed.
C12_UnloadedRejects ==
    [][(/\ NeverLoaded
        /\ Called("get") \/ Called("set")
        /\ result'.pedal_index < capabilities.pedal_count) =>
            ~result'.res.ok]_vars

(***************************************************************************)
(* Addressing of the pedals on the wire.                                   *)
(***************************************************************************)
\* the frames of a log that address a pedal: read-config commands and
\* write-config headers
AddressFrames == {"read_config", "header"}

\* C13: every read-config and write-config-header frame a driver sends for
\* a pedal index i below pedal_count carries first_pedal_index + i + 1 in
\* byte 3 of its 8 bytes, after 01 82 (read) or 01 81 (write header).
C13_FramesAddressProtocolIndex ==
    \A k \in 1..Len(io) :
        (/\ io[k].call = "write" /\ io[k].part \in AddressFrames
         /\ io[k].pedal < capabilities.pedal_count) =>
            /\ Len(io[k].data) = 8
            /\ io[k].data[1] = 1
            /\ io[k].data[2] = (IF io[k].part = "read_config" THEN 130 ELSE 129)
            /\ io[k].data[4] = capabilities.first_pedal_index + io[k].pedal + 1

\* C13, the case: a 1-pedal device whose first pedal has protocol index 1
\* was sent, for pedal 0, a read-config command and, in a later operation,
\* a write-config header, each with 2 in byte 3
C13_Witness ==
    /\ capabilities.pedal_count = 1 /\ capabilities.first_pedal_index = 1
    /\ result.op = "save"
    /\ \E k \in 1..Len(io) :
            /\ io[k].part = "header" /\ io[k].pedal = 0 /\ io[k].data[4] = 2

(***************************************************************************)
(* Properties of the 40-byte packet codec and of the keymap.               *)
(***************************************************************************)
\* parse_config was applied to the packet encode_config made of a
\* configuration of the given kind
RoundTripOf(kind) ==
    /\ codec_call.fn = "parse_config"
    /\ codec_call.input.v.kind = kind

\* C14: for every mouse configuration c, of any set of buttons or any axis
\* triple, parse_config(encode_config(c)) is Ok(c).
C14_MouseRoundTrip ==
    RoundTripOf("Mouse") => codec_call.ret = Ok(codec_call.input.v)

\* the characters the keymap has a key for: letters, digits, space and
\* punctuation
Encodable(ch) == encode_char(ch).some \/ ch = " "

\* C15: for every text t of at most 38 characters, each of which the
\* keymap can encode, parse_config(encode_config(Text(t))) is a Text
\* configuration whose string is t.
C15_TextRoundTrip ==
    (/\ RoundTripOf("Text")
     /\ Len(codec_call.input.v.text) <= 38
     /\ \A k \in 1..Len(codec_call.input.v.text) :
            Encodable(codec_call.input.v.text[k])) =>
        /\ codec_call.ret.ok
        /\ codec_call.ret.v.kind = "Text"
        /\ codec_call.ret.v.text = codec_call.input.v.text

\* C16: for every media button (codes 1..19) and every gamepad key (codes
\* 1..12), the packet encode_config makes has the code in payload byte 0
\* and zero in every other payload byte, and parse_config of it is the
\* configuration of the same variant with the same button.
C16_MediaGamepadRoundTrip ==
    (RoundTripOf("Media") \/ RoundTripOf("Gamepad")) =>
        /\ codec_call.arg.data[1] = codec_call.input.v.button
        /\ \A k \in 2..38 : codec_call.arg.data[k] = 0
        /\ codec_call.ret.ok
        /\ codec_call.ret.v.kind = codec_call.input.v.kind
        /\ codec_call.ret.v.button = codec_call.input.v.button

\* C16, the case: the last media button, code 19, made the round trip
C16_Witness ==
    /\ RoundTripOf("Media")
    /\ codec_call.input.v.button = 19
    /\ codec_call.arg.config_type = 7
    /\ codec_call.ret = Ok(MediaConfiguration_new(19))

\* C17: when encode_config is given a keyboard configuration of 2 to 6
\* keys, parse_config of the packet returns a keyboard configuration with
\* exactly one key, the first of those given.
C17_DecodeKeepsFirstKey ==
    (/\ RoundTripOf("Keyboard")
     /\ Len(codec_call.input.v.keys) \in 2..6) =>
        /\ codec_call.ret.ok
        /\ codec_call.ret.v.kind = "Keyboard"
        /\ Len(codec_call.ret.v.keys) = 1
        /\ codec_call.ret.v.keys[1] = codec_call.input.v.keys[1]

\* the type byte of a keyboard packet: single or multi key, standard or
\* one-shot
KeyboardTypeByte(key_count, mode) ==
    IF key_count > 1
    THEN IF mode = "OneShot" THEN 134 ELSE 6
    ELSE IF mode = "OneShot" THEN 129 ELSE 1

\* C18: the packet encode_config makes of a keyboard configuration has
\* type byte 0x01, 0x81, 0x06 or 0x86 by key count and mode, the modifier
\* bits in payload byte 0 and zero in every key slot beyond the keys
\* given; parse_config of it returns the same mode and modifiers.
C18_KeyboardEncoding ==
    RoundTripOf("Keyboard") =>
        /\ codec_call.arg.config_type =
                KeyboardTypeByte(Len(codec_call.input.v.keys), codec_call.input.v.mode)
        /\ codec_call.arg.data[1] = codec_call.input.v.modifiers
        /\ \A k \in Len(codec_call.input.v.keys) + 1..6 : codec_call.arg.data[1 + k] = 0
        /\ codec_call.ret.ok
        /\ codec_call.ret.v.kind = "Keyboard"
        /\ codec_call.ret.v.mode = codec_call.input.v.mode
        /\ codec_call.ret.v.modifiers = codec_call.input.v.modifiers

\* C18, the case: three keys, one-shot, all eight modifier bits
C18_Witness ==
    /\ RoundTripOf("Keyboard")
    /\ Len(codec_call.input.v.keys) = 3
    /\ codec_call.input.v.mode = "OneShot"
    /\ codec_call.input.v.modifiers = 255
    /\ codec_call.arg.config_type = 134
    /\ codec_call.arg.data[1] = 255
    /\ codec_call.arg.data[2] # 0 /\ codec_call.arg.data[5] = 0
    /\ codec_call.ret.v.modifiers = 255

\* C19: encode_config(Unconfigured) is a packet of declared length 0 and
\* type byte 0x00, and parse_config of that packet is Unconfigured.
C19_UnconfiguredEncoding ==
    /\ (codec_call.fn = "encode_config" /\ codec_call.arg = Unconfigured) =>
            /\ codec_call.ret.ok
            /\ codec_call.ret.v.size = 0
            /\ codec_call.ret.v.config_type = 0
    /\ RoundTripOf("Unconfigured") => codec_call.ret = Ok(Unconfigured)

\* C19, the case: the packet made of Unconfigured was parsed
C19_Witness ==
    /\ RoundTripOf("Unconfigured")
    /\ codec_call.arg = ConfigPacket(0, 0, Zeros(38))
    /\ codec_call.ret.ok

\* the codes the table gives a name
TableCodes(name) ==
    {KEYMAP_TABLE[k][2] : k \in {j \in 1..Len(KEYMAP_TABLE) : KEYMAP_TABLE[j][1] = name}}

\* the names of the table that a name is a casing of
TableNamesOf(name) == {t \in TableNames : to_lowercase(t) = to_lowercase(name)}

IsLetter(name) == Len(name) = 1 /\ is_alphabetic(name[1])

\* C20: encode_key gives a lowercase letter a code in 0x04..0x1d and the
\* uppercase letter that code + 0x80; it gives every casing of a
\* multi-character name of the table the code of that name; and it
\* gives no code to a name that is no casing of a name of the table.
C20_EncodeKeyCase ==
    codec_call.fn = "encode_key" =>
        LET name == codec_call.arg
        IN  /\ (IsLetter(name) /\ name = to_lowercase(name)) =>
                    /\ codec_call.ret.some
                    /\ codec_call.ret.v \in 4..29
                    /\ encode_key(<<UpperOf(name[1])>>) = Some(codec_call.ret.v + 128)
            /\ (IsLetter(name) /\ name # to_lowercase(name)) =>
                    /\ codec_call.ret.some
                    /\ Some(codec_call.ret.v - 128) = encode_key(to_lowercase(name))
            /\ \A t \in TableNamesOf(name) :
                    Len(t) > 1 =>
                        /\ codec_call.ret.some
                        /\ TableCodes(t) = {codec_call.ret.v}
            /\ TableNamesOf(name) = {} => codec_call.ret = None

\* C20, the case: encode_key was given F5 in uppercase, which the table
\* holds in lowercase, and gave the code of f5
C20_Witness ==
    /\ codec_call.fn = "encode_key"
    /\ codec_call.arg = <<"F", "5">>
    /\ codec_call.arg \notin TableNames
    /\ codec_call.ret = Some(62)

(***************************************************************************)
(* Properties of encode_char, decode_key and the text encoder.             *)
(***************************************************************************)
\* C21: encode_char gives every character that has a one-character entry
\* in the table the code of that entry: an uppercase letter its shifted
\* code, the space 0x2c, shifted punctuation its shifted code.
C21_EncodeCharTableCode ==
    (/\ codec_call.fn = "encode_char"
     /\ <<codec_call.arg>> \in TableNames) =>
        /\ codec_call.ret.some
        /\ TableCodes(<<codec_call.arg>>) = {codec_call.ret.v}

\* the names of the table for a code, and those that do not start with '<'
NamesOfCode(code) ==
    {KEYMAP_TABLE[k][1] : k \in {j \in 1..Len(KEYMAP_TABLE) : KEYMAP_TABLE[j][2] = code}}

PlainNamesOf(code) == {name \in NamesOfCode(code) : name[1] # "<"}

\* C22: for a code of the table that has a name not starting with '<',
\* decode_key returns the shortest such name; for a code that is not in the
\* table it returns no name.
C22_DecodeKeyShortestName ==
    codec_call.fn = "decode_key" =>
        /\ PlainNamesOf(codec_call.arg) # {} =>
              /\ codec_call.ret.some
              /\ codec_call.ret.v \in PlainNamesOf(codec_call.arg)
              /\ \A name \in PlainNamesOf(codec_call.arg) :
                    Len(codec_call.ret.v) <= Len(name)
        /\ NamesOfCode(codec_call.arg) = {} => codec_call.ret = None

\* 0x28 has the names "enter" and "return", 0xff has none
C22_Witness ==
    /\ codec_call.fn = "decode_key"
    /\ \/ codec_call.arg = 40 /\ codec_call.ret = Some(<<"e", "n", "t", "e", "r">>)
       \/ codec_call.arg = 255 /\ codec_call.ret = None

\* the characters encode_for_protocol has a code for, and the code
Mappable(ch) == encode_char(ch).some \/ ch = " "

CodeOf(ch) == IF encode_char(ch).some THEN encode_char(ch).v ELSE 44

\* the positions of the mappable characters of a text, and the k-th of them
MappablePositions(text) == {i \in 1..Len(text) : Mappable(text[i])}

NthMappable(text, k) ==
    CHOOSE i \in MappablePositions(text) :
        Cardinality({j \in MappablePositions(text) : j <= i}) = k

\* C23: encode_for_protocol returns exactly 38 bytes: the codes of the
\* mappable characters in their order, unmappable characters leaving no
\* byte, cut off after 38 codes and padded with zeros; a text with 38 or
\* more mappable characters gives no zero byte.
C23_EncodeForProtocolShape ==
    codec_call.fn = "encode_for_protocol" =>
        /\ Len(codec_call.ret) = 38
        /\ \A k \in 1..38 :
              codec_call.ret[k] =
                  IF k <= Cardinality(MappablePositions(codec_call.arg))
                  THEN CodeOf(codec_call.arg[NthMappable(codec_call.arg, k)])
                  ELSE 0
        /\ Cardinality(MappablePositions(codec_call.arg)) >= 38 =>
              \A k \in 1..38 : codec_call.ret[k] # 0

\* a tab followed by 38 letters: 39 characters, 38 codes and no zero byte
C23_Witness ==
    /\ codec_call.fn = "encode_for_protocol"
    /\ Len(codec_call.arg) = 39
    /\ ~Mappable(codec_call.arg[1])
    /\ \A k \in 1..38 : codec_call.ret[k] = 27

(***************************************************************************)
(* Properties of the set command.                                          *)
(***************************************************************************)
\* the run of the set command has ended
Ended == command.name = "set" /\ command.done

InSeq(x, seq) == \E k \in 1..Len(seq) : seq[k] = x

\* the run called neither set_pedal_configuration nor save_configuration
NoSetNoSave ==
    /\ ~InSeq("set_pedal_configuration", command.called)
    /\ ~InSeq("save_configuration", command.called)

\* what the run began with is what it leaves: the slots and trigger modes of
\* the device, no dirty flag
NothingChanged ==
    /\ device.slots = command.attached.slots
    /\ device.triggers = command.attached.triggers
    /\ \A k \in 1..Len(modified_pedals) : ~modified_pedals[k]

\* C24: a set command with a text of more than 38 characters returns an
\* error and calls neither set_pedal_configuration nor save_configuration:
\* no slot of the cache or of the device and no dirty flag is changed.
C24_LongTextRejected ==
    (/\ Ended
     /\ command.config.kind = "Text"
     /\ Len(command.config.text) > 38) =>
        /\ ~command.res.ok
        /\ NoSetNoSave
        /\ NothingChanged
        /\ \A k \in 1..Len(configurations) :
              configurations[k].kind = "Text" => configurations[k].text # command.config.text

\* a run whose pedal resolves and whose load succeeds ends on the text
C24_Witness ==
    /\ Ended
    /\ command.config.kind = "Text"
    /\ Len(command.config.text) = 39
    /\ command.pedal_index = Some(1)
    /\ command.res = Err(anyhow("Text too long (max 38 characters)"))
    /\ command.called = <<"load_configuration">>

\* the run came to the pedal argument: the device was found and loaded
CameToPedal ==
    /\ Ended
    /\ command.called # <<>>
    /\ command.res # Err(anyhow("Failed to load device configuration"))

\* the slots whose name is the argument up to the case of letters
NamedSlots ==
    {k \in 0..(Len(capabilities.pedal_names) - 1) :
        to_lowercase(capabilities.pedal_names[k + 1]) = to_lowercase(command.pedal_str)}

\* C25: a pedal argument that parses as a number n resolves to slot n - 1
\* when 1 <= n <= pedal_count and to none otherwise; any other argument
\* resolves to a slot whose name it is, case-insensitively, and to none when
\* there is no such name; a resolved slot is below pedal_count, and a run
\* whose argument resolves to no slot is an error without set or save.
C25_PedalArgument ==
    CameToPedal =>
        /\ usize_from_str(command.pedal_str).some =>
              command.pedal_index =
                  IF /\ 1 <= usize_from_str(command.pedal_str).v
                     /\ usize_from_str(command.pedal_str).v <= capabilities.pedal_count
                  THEN Some(usize_from_str(command.pedal_str).v - 1)
                  ELSE None
        /\ ~usize_from_str(command.pedal_str).some =>
              IF NamedSlots = {} THEN command.pedal_index = None
              ELSE command.pedal_index.some /\ command.pedal_index.v \in NamedSlots
        /\ command.pedal_index.some => command.pedal_index.v < capabilities.pedal_count
        /\ ~command.pedal_index.some => ~command.res.ok /\ NoSetNoSave

\* "Middle" names slot 1 of a three-pedal device, and the run sets and saves
C25_Witness ==
    /\ CameToPedal
    /\ command.pedal_str = <<"M", "i", "d", "d", "l", "e">>
    /\ command.pedal_index = Some(1)
    /\ command.res.ok
    /\ command.called = <<"load_configuration", "set_pedal_configuration",
                          "save_configuration">>

(***************************************************************************)
(* Properties of the vectors of a session.                                 *)
(***************************************************************************)
\* C26: in every state of a session pedal_count is the number of pedal
\* names and the cached configurations, the trigger modes and the dirty
\* flags have pedal_count entries each, and no operation changes the
\* capabilities.
C26_VectorsMatchPedalCount ==
    /\ [](/\ capabilities.pedal_count = Len(capabilities.pedal_names)
          /\ Len(configurations) = capabilities.pedal_count
          /\ Len(trigger_modes) = capabilities.pedal_count
          /\ Len(modified_pedals) = capabilities.pedal_count)
    /\ [][capabilities' = capabilities]_vars

\* a three-pedal session after a set and a successful save
C26_Witness ==
    /\ result.op = "save" /\ result.res.ok
    /\ capabilities.pedal_count = 3
    /\ \E k \in 1..3 : configurations[k] = TextHi
    /\ Len(trigger_modes) = 3 /\ Len(modified_pedals) = 3

(***************************************************************************)
(* Properties of the locks.                                                *)
(***************************************************************************)
\* the thread is about to take the lock
Takes(t, mutex) == Next_step(t, {"lock"}) /\ Head(threads[t].steps).on = mutex

\* C27: no thread takes the lock of the cached configurations while it
\* holds the lock of the handle: the handle's guard is dropped before.
C27_HandleDroppedBeforeCache ==
    \A t \in DOMAIN threads :
        /\ Takes(t, "configurations") => ~Holds(t, "device")
        /\ ~(Holds(t, "device") /\ Holds(t, "configurations"))

\* a load has read a pedal, dropped the handle and holds the configurations
\* while the other thread holds the handle
C27_Witness ==
    \E t \in DOMAIN threads, u \in DOMAIN threads :
        /\ threads[t].method = "load_configuration"
        /\ threads[t].held = <<"configurations">>
        /\ threads[u].held = <<"device">>

\* C28: a thread at a device read or write holds the lock of the handle
\* and no other lock.
C28_OnlyHandleAcrossIo ==
    \A t \in DOMAIN threads :
        Next_step(t, {"write", "read"}) => threads[t].held = <<"device">>

\* a save is at a write to the device while the other thread holds the
\* configurations
C28_Witness ==
    \E t \in DOMAIN threads, u \in DOMAIN threads :
        /\ threads[t].method = "save_configuration"
        /\ Next_step(t, {"write"})
        /\ threads[t].held = <<"device">>
        /\ Holds(u, "configurations")

\* t waits for a lock that u holds
WaitsFor(t, u) ==
    Next_step(t, {"lock"}) /\ Holds(u, Head(threads[t].steps).on)

\* each thread of the set waits for a lock a thread of the set holds
Deadlocked(set) == set # {} /\ \A t \in set : \E u \in set : WaitsFor(t, u)

\* the two locks a method of the driver holds at once, in the order taken
TwoLocks ==
    IF driver = "Ikkegol" THEN <<"trigger_modes", "configurations">>
    ELSE <<"configurations", "trigger_modes">>

\* C29: no set of threads is deadlocked, and a thread that holds two locks
\* at once holds the two that every method of its driver takes in the same
\* order; no thread holds more.
C29_NoDeadlock ==
    /\ \A set \in SUBSET DOMAIN threads : ~Deadlocked(set)
    /\ \A t \in DOMAIN threads :
          /\ Len(threads[t].held) <= 2
          /\ Len(threads[t].held) = 2 => threads[t].held = TwoLocks

\* a thread holds two locks and the other waits for one of them
C29_Witness ==
    \E t \in DOMAIN threads, u \in DOMAIN threads :
        /\ Len(threads[t].held) = 2
        /\ WaitsFor(u, t)
        /\ ~WaitsFor(t, u)

(***************************************************************************)
(* Properties of the wire sequences.                                       *)
(***************************************************************************)
\* the write events of a log, and the positions of the events of a sort
Writes(log) == SelectSeq(log, LAMBDA e : e.call = "write")

Positions(log, call, part, pedal) ==
    {k \in 1..Len(log) :
        log[k].call = call /\ log[k].part = part /\ log[k].pedal = pedal}

\* the position of the latest write before position k of a log, 0 if none
WriteBefore(log, k) ==
    IF \E j \in 1..(k - 1) : log[j].call = "write"
    THEN CHOOSE j \in 1..(k - 1) :
            /\ log[j].call = "write"
            /\ \A i \in (j + 1)..(k - 1) : log[i].call # "write"
    ELSE 0

\* the chunks read for a pedal, each in its 8-byte buffer, put one after
\* the other from offset 0 and filled up to the 40 bytes of a packet
Reassembled(log, pedal) ==
    Bind(Concat([k \in 1..Len(log) |->
                    IF /\ log[k].call = "read" /\ log[k].part = "config"
                       /\ log[k].pedal = pedal /\ log[k].data # <<>>
                    THEN Buffer8(log[k].data) ELSE <<>>]),
         LAMBDA bytes : bytes \o Zeros(PACKET_SIZE - Len(bytes)))

\* a load of the 40-byte-packet family has returned Ok
IkkegolLoaded == driver = "Ikkegol" /\ result.op = "load" /\ result.res.ok

\* C31: a successful load_configuration of IkkegolDevice on N pedals sends
\* N read-config commands, for the pedals 0..N-1 in this order, each
\* followed by 1 to 5 reads of chunks that make up the 40-byte packet of the
\* pedal, and then one read-trigger-modes command with one read; it makes
\* no other call.
C31_IkkegolLoadSequence ==
    IkkegolLoaded =>
        /\ Len(Writes(io)) = capabilities.pedal_count + 1
        /\ \A p \in 0..(capabilities.pedal_count - 1) :
              /\ Writes(io)[p + 1].part = "read_config"
              /\ Writes(io)[p + 1].pedal = p
              /\ Writes(io)[p + 1].data = read_config(capabilities.first_pedal_index + p)
              /\ Cardinality(Positions(io, "read", "config", p)) \in 1..5
              /\ \A k \in Positions(io, "read", "config", p) :
                    /\ WriteBefore(io, k) \in Positions(io, "write", "read_config", p)
                    /\ (io[k].data # <<>>) => Len(io[k].data) = 8
              /\ Len(Reassembled(io, p)) = PACKET_SIZE
              /\ parse_config(from_bytes(Reassembled(io, p))).ok
              /\ configurations[p + 1] =
                    set_trigger(parse_config(from_bytes(Reassembled(io, p))).v,
                                TriggerFromMode(trigger_modes[p + 1]))
        /\ Last(Writes(io)).part = "read_trigger_modes"
        /\ Last(Writes(io)).data = READ_TRIGGER_MODES
        /\ Last(io).call = "read" /\ Last(io).part = "trigger"
        /\ io[Len(io) - 1] = Last(Writes(io))
        /\ \A k \in 1..Len(io) :
              io[k].call = "read" =>
                  \/ io[k].part = "config" /\ io[k].pedal < capabilities.pedal_count
                  \/ k = Len(io)

\* a load of three pedals, the first of which answered with two chunks only
C31_Witness ==
    /\ IkkegolLoaded
    /\ capabilities.pedal_count = 3
    /\ Cardinality(Positions(io, "read", "config", 0)) = 3
    /\ Cardinality(Positions(io, "read", "config", 1)) = 5
    /\ Len(io) = 18

\* C32: a load_configuration that fails while a pedal is read leaves the
\* cached trigger mode of every slot as it was: no trigger mode is decoded
\* into the cache before all the pedal slots have been read.
FailsReadingPedal ==
    /\ Called("load")
    /\ ~result'.res.ok
    /\ io' # <<>>
    /\ Last(io').part \in ReadParts

C32_TriggersAfterAllPedals ==
    [][FailsReadingPedal => trigger_modes' = trigger_modes]_vars

\* the frames of a log: the data of its write events, in order
Frames(log) == [k \in 1..Len(Writes(log)) |-> Writes(log)[k].data]

\* the write-header of a pedal and its packet in 8-byte chunks
PedalFrames(caps, config, pedal_index) ==
    Bind(encode_config(config).v, LAMBDA packet :
        <<write_config_header(packet.size,
                              get_protocol_index(caps, pedal_index).v)>>
            \o chunks8(to_bytes(packet)))

\* the frames of the modified pedals of a session, in the order of the pedals
ModifiedFrames(self) ==
    Bind(filter_modified(self.modified_pedals, 0, self.capabilities.pedal_count),
         LAMBDA modified_indices :
            Concat([k \in 1..Len(modified_indices) |->
                        PedalFrames(self.capabilities,
                                    self.configurations[modified_indices[k] + 1],
                                    modified_indices[k])]))

\* C33: the frames of one successful save_configuration of IkkegolDevice are
\* one begin-write command and then, for each modified pedal in turn, the
\* write-header with the packet's size and the pedal's protocol index and
\* the five 8-byte chunks of the packet; nothing else is sent.  Saves with
\* no modified pedal, which send nothing, are left aside.
C33_SaveWireSequence ==
    [][(Called("save") /\ driver = "Ikkegol" /\ result'.res.ok
            /\ has_modifications(Self)) =>
            /\ \A k \in 1..Len(io') : io'[k].call = "write"
            /\ Frames(io') = <<BEGIN_WRITE>> \o ModifiedFrames(Self)]_vars


\* the events of a part in a log, in order
PartOf(log, part) == SelectSeq(log, LAMBDA e : e.call = "write" /\ e.part = part)

\* C34: a successful save_configuration of PCsensorDevice on a 1-pedal
\* device sends the write-headers of the protocol slots 1, 2 and 3 in this
\* order, and every report written into the unused slots 2 and 3 is all
\* zero.
C34_EmptySlotsAllZero ==
    (driver = "PCsensor" /\ capabilities.pedal_count = 1
        /\ result.op = "save" /\ result.res.ok) =>
        /\ [k \in 1..Len(PartOf(io, "header")) |-> PartOf(io, "header")[k].data[4]]
                = <<1, 2, 3>>
        /\ \A k \in 1..Len(io) :
                (io[k].part = "body" /\ io[k].pedal >= capabilities.pedal_count)
                    => io[k].data = Zeros(8)


\* the events of the reads of a part for a pedal, in order
ReadsOf(log, part, pedal) ==
    SelectSeq(log, LAMBDA e : e.call = "read" /\ e.part = part /\ e.pedal = pedal)

\* the text length a first report declares: min(max(L - 2, 0), 38)
DeclaredTextLen(report) == Min(IF report[1] >= 2 THEN report[1] - 2 ELSE 0, 38)

\* the reads that follow a first report declaring n text bytes
FurtherReads(n) == IF n > 6 THEN (n - 6 + 7) \div 8 ELSE 0

\* the first n text bytes of the reports of a text, the first of which
\* holds six, padded with zeros to 38 bytes
TextBytes(first, further, n) ==
    [k \in 1..38 |->
        IF k > n THEN 0
        ELSE IF k <= 6 THEN first[2 + k]
        ELSE further[((k - 7) \div 8) + 1][((k - 7) % 8) + 1]]

\* the pedals whose first report, in the latest operation, is of type 0x04
TextReadPedals ==
    {p \in 0..(capabilities.pedal_count - 1) :
        /\ Len(ReadsOf(io, "config", p)) = 1
        /\ Len(ReadsOf(io, "config", p)[1].data) = 8
        /\ ReadsOf(io, "config", p)[1].data[2] = 4}

\* C35: in a pedal read of PCsensorDevice whose first report has type 0x04
\* and declares the length L, with n = min(max(L - 2, 0), 38): a load that
\* succeeds has made exactly ceil((n - 6) / 8) further reads for the pedal
\* when n > 6 and none otherwise, and has cached the text of the first
\* min(n, 6) text bytes of the first report and the next n - 6 bytes of the
\* further reports, 38 bytes at most; a load that fails has made no more
\* reads than that.
C35_TextContinuationReads ==
    (driver = "PCsensor" /\ result.op \in {"new", "load"}) =>
        \A p \in TextReadPedals :
            Bind(ReadsOf(io, "config", p)[1].data, LAMBDA first :
            Bind(DeclaredTextLen(first), LAMBDA n :
            Bind(ReadsOf(io, "text", p), LAMBDA further :
                /\ Len(further) <= FurtherReads(n)
                /\ result.res.ok =>
                    /\ Len(further) = FurtherReads(n)
                    /\ configurations[p + 1] =
                         TextConfiguration_new(decode_from_protocol(
                            TextBytes(first,
                                      [k \in 1..Len(further) |-> further[k].data],
                                      n))))))

\* a load read a text whose first report declares 255 bytes, in four
\* further reads, and one whose first report declares 17, in two
C35_Witness ==
    /\ driver = "PCsensor" /\ result.op = "load" /\ result.res.ok
    /\ {1, 2} \subseteq TextReadPedals
    /\ ReadsOf(io, "config", 1)[1].data[1] = 255
    /\ Len(ReadsOf(io, "text", 1)) = 4
    /\ ReadsOf(io, "config", 2)[1].data[1] = 17
    /\ Len(ReadsOf(io, "text", 2)) = 2


\* the type byte of the first report read for a pedal in the latest operation
ResponseType(log, pedal) == ReadsOf(log, "config", pedal)[1].data[2]

\* C36: PCsensorDevice never sends the read-trigger-modes command, and
\* get_pedal_configuration after a load_configuration that succeeded
\* returns, for a configured slot, a configuration with the trigger
\* OnRelease exactly when bit 0x80 of the type byte read for the pedal was
\* set, and OnPress otherwise.
C36_TriggerFromTypeByte ==
    [][driver = "PCsensor" =>
        /\ \A k \in 1..Len(io') : io'[k].data # READ_TRIGGER_MODES
        /\ (/\ result.op \in {"new", "load"} /\ result.res.ok
            /\ Called("get") /\ result'.res.ok
            /\ result'.res.v.kind # "Unconfigured") =>
                (result'.res.v.trigger = "OnRelease"
                    <=> BitAnd(ResponseType(io, result'.pedal_index), 128) # 0)]_vars


\* the pedals set and saved whose five reports the latest load read
ReadBack ==
    {p \in 0..(Len(requested) - 1) :
        /\ requested[p + 1].some
        /\ Len(SelectSeq(ReadsOf(io, "config", p), LAMBDA e : e.data # <<>>)) = 5}

\* the wire slot of a pedal
WireSlot(pedal_index) == get_protocol_index(capabilities, pedal_index).v + 1

\* C37: the packet IkkegolDevice encodes for a configuration is 40 bytes
\* long on the wire, byte 0 its declared length and byte 1 its type code;
\* from_bytes gives the packet back from these bytes; and the five 8-byte
\* chunks written for it, which the device holds after the save, are
\* reassembled by the read path of the load into the same 40 bytes.
C37_PacketBytesRoundTrip ==
    (driver = "Ikkegol" /\ result.op = "load") =>
        \A p \in ReadBack :
            Bind(encode_config(requested[p + 1].v).v, LAMBDA packet :
                /\ Len(to_bytes(packet)) = PACKET_SIZE
                /\ to_bytes(packet)[1] = packet.size
                /\ to_bytes(packet)[2] = packet.config_type
                /\ from_bytes(to_bytes(packet)) = packet
                /\ device.slots[WireSlot(p)] = chunks8(to_bytes(packet))
                /\ Len(device.slots[WireSlot(p)]) = 5
                /\ \A k \in 1..5 : Len(device.slots[WireSlot(p)][k]) = 8
                /\ Reassembled(io, p) = to_bytes(packet))

\* a text of 38 characters set on a pedal was saved and read back
C37_Witness ==
    /\ driver = "Ikkegol" /\ result.op = "load" /\ result.res.ok
    /\ \E p \in ReadBack :
        /\ requested[p + 1].v = Text38
        /\ Reassembled(io, p)[1] = 40
        /\ Reassembled(io, p)[40] # 0


\* C38: on a device that stores what is written, a configuration given to
\* set_pedal_configuration, saved by a save_configuration that succeeds and
\* loaded by a load_configuration that succeeds is what
\* get_pedal_configuration returns for the pedal, with the same action and
\* the same trigger, in both drivers.
C38_SetSaveLoadGet ==
    (result.op = "get" /\ result.res.ok /\ requested[result.pedal_index + 1].some)
        => result.res.v = requested[result.pedal_index + 1].v


\* a thread is inside the exchange of a pedal: the command that opens the
\* exchange was sent and the next call of hidapi of the thread is another
\* frame of the same exchange
MidExchange(t) ==
    \E k \in 1..Len(threads[t].steps) :
        /\ threads[t].steps[k].do \in {"write", "read"}
        /\ \A j \in 1..(k - 1) : threads[t].steps[j].do \notin {"write", "read"}
        /\ "first" \notin DOMAIN threads[t].steps[k]

\* a thread sends or receives a frame
Frame(u) ==
    /\ Next_step(u, {"write", "read"})
    /\ threads'[u].steps = Tail(threads[u].steps)

\* C39: no thread sends or receives a frame while another thread of the
\* same session is inside the read exchange of a pedal (the command and the
\* chunks of the response) or inside the write of a pedal (begin-write,
\* write-header and the chunks of the body).
C39_ExchangesNotInterleaved ==
    [][\A u \in Threads : Frame(u) =>
            \A t \in Threads \ {u} : ~MidExchange(t)]_vars

\* a save_configuration is inside the write of a pedal while a
\* load_configuration waits for the handle to read one
C39_Witness ==
    \E t \in Threads, u \in Threads :
        /\ t # u
        /\ threads[t].method = "save_configuration"
        /\ MidExchange(t)
        /\ threads[u].method = "load_configuration"
        /\ Takes(u, "device")


\* the reports of a text of n scan codes: the first with the length n + 2,
\* the type 0x04 and six codes, the following with eight codes each
ReportsOf(codes, n) ==
    [r \in 1..(1 + FurtherReads(n)) |->
        IF r = 1
        THEN <<n + 2, 4>> \o [k \in 1..6 |-> IF k <= n THEN codes[k] ELSE 0]
        ELSE [k \in 1..8 |-> IF 6 + 8 * (r - 2) + k <= n
                             THEN codes[6 + 8 * (r - 2) + k] ELSE 0]]

\* the pedals of PCsensorDevice a text was set on, saved and loaded again
TextsReadBack ==
    IF driver = "PCsensor" /\ result.op = "load" /\ result.res.ok
    THEN {p \in 0..(Len(requested) - 1) :
            requested[p + 1].some /\ requested[p + 1].v.kind = "Text"}
    ELSE {}

\* C40: for a text whose encoding has n non-zero scan codes, the reports
\* PCsensorDevice writes are the first with the length n + 2, the type 0x04
\* and the first six codes and then eight codes per report, and the text
\* read path of the load reassembles them into the same 38-byte array of
\* scan codes, so that the cached text is the text that was written.
C40_TextReportsReassembled ==
    \A p \in TextsReadBack :
        Bind(encode_for_protocol(requested[p + 1].v.text), LAMBDA codes :
        Bind(take_while_nonzero(codes), LAMBDA n :
            /\ device.slots[p + 1] = ReportsOf(codes, n)
            /\ p \in TextReadPedals
            /\ TextBytes(ReadsOf(io, "config", p)[1].data,
                         [k \in 1..Len(ReadsOf(io, "text", p)) |->
                            ReadsOf(io, "text", p)[k].data],
                         DeclaredTextLen(ReadsOf(io, "config", p)[1].data)) = codes
            /\ configurations[p + 1].text = decode_from_protocol(codes)
            /\ configurations[p + 1].text = requested[p + 1].v.text))


=============================================================================
